---- MODULE Spec2Model ----
(***************************************************************************)
(* State-machine model of xjump: the simulation core (PRNG, floor ring,    *)
(* joystick, physics tick, scrolling) and the host loop that drives it.    *)
(* Two revisions of the program are modelled side by side:                 *)
(*   prog = "xjump" : src/xjump.c (soft-scroll and hard-scroll modes)      *)
(*   prog = "main"  : src/main.c  (the older, hard-scroll only revision)   *)
(* All C integer divisions truncate toward zero; CDiv/CMod keep that.      *)
(***************************************************************************)
EXTENDS Integers, Sequences, FiniteSets, TLC

\* ------------------------------------------------------------------------
\* Helper functions (src/xjump.c 45-60)
\* ------------------------------------------------------------------------

min(x, y) == IF x < y THEN x ELSE y

max(x, y) == IF x > y THEN x ELSE y

\* C's "/" on ints: truncation toward zero (m > 0 everywhere it is used).
CDiv(n, m) == IF n >= 0 THEN n \div m ELSE -((-n) \div m)

\* C's "%" on ints: the remainder has the sign of the dividend.
CMod(n, m) == n - m * CDiv(n, m)

abs(x) == IF x < 0 THEN -x ELSE x

\* A variant that drops the sign of the remainder.
mod_Abs(n, m) == abs(CMod(n, m))

\* static int mod(int n, int m): the non-negative remainder.
mod(n, m) == LET r == CMod(n, m) IN IF r >= 0 THEN r ELSE r + m

\* ------------------------------------------------------------------------
\* Random number generator (src/xjump.c 171-211): PCG32.
\* A uint64_t is a sequence of 8 bytes, least significant first, and a
\* uint32_t a pair <<high 16 bits, low 16 bits>>, so that every intermediate
\* value fits the model checker's integers and wraps exactly as in C.
\* ------------------------------------------------------------------------

\* The multiplier 6364136223846793005ULL = 0x5851F42D4C957F2D has the bytes
\* 45, 127, 149, 76, 45, 244, 81, 88, least significant first.

\* Byte k (from 0) of a * PcgMultiplier + c before the carry is added.
MulAddByte(a, c, k) ==
    c[k + 1] +
    CASE k = 0 -> 45 * a[1]
      [] k = 1 -> 127 * a[1] + 45 * a[2]
      [] k = 2 -> 149 * a[1] + 127 * a[2] + 45 * a[3]
      [] k = 3 -> 76 * a[1] + 149 * a[2] + 127 * a[3] + 45 * a[4]
      [] k = 4 -> 45 * a[1] + 76 * a[2] + 149 * a[3] + 127 * a[4] + 45 * a[5]
      [] k = 5 -> 244 * a[1] + 45 * a[2] + 76 * a[3] + 149 * a[4] + 127 * a[5]
                  + 45 * a[6]
      [] k = 6 -> 81 * a[1] + 244 * a[2] + 45 * a[3] + 76 * a[4] + 149 * a[5]
                  + 127 * a[6] + 45 * a[7]
      [] OTHER -> 88 * a[1] + 81 * a[2] + 244 * a[3] + 45 * a[4] + 76 * a[5]
                  + 149 * a[6] + 127 * a[7] + 45 * a[8]

RECURSIVE MulAddFrom(_, _, _, _)
MulAddFrom(a, c, k, t) ==
    IF k = 7 THEN <<t % 256>>
    ELSE <<t % 256>> \o MulAddFrom(a, c, k + 1, t \div 256 + MulAddByte(a, c, k + 1))

\* a * 6364136223846793005 + c modulo 2^64
MulAdd64(a, c) == MulAddFrom(a, c, 0, MulAddByte(a, c, 0))

\* pcgSeq = (seed[1] << 1) | 1
RECURSIVE Shl1From(_, _, _)
Shl1From(s, k, carry) ==
    IF k > 8 THEN <<>>
    ELSE <<(2 * s[k] + carry) % 256>> \o Shl1From(s, k + 1, (2 * s[k] + carry) \div 256)

pcg32_init(seed0, seed1) ==
    [pcgState |-> seed0, pcgSeq |-> Shl1From(seed1, 1, 1)]

\* byte q (from 0) of a uint64_t, 0 beyond the last one
Byte64(s, q) == IF q > 7 THEN 0 ELSE s[q + 1]

\* bits lo .. lo+15 of a uint64_t, as after s >> lo
Win16(s, lo) ==
    ((Byte64(s, lo \div 8) + 256 * Byte64(s, lo \div 8 + 1)
      + 65536 * Byte64(s, lo \div 8 + 2)) \div (2 ^ (lo % 8))) % 65536

\* a ^ b on 4-bit values
Xor4 ==
    [a \in 0 .. 15 |-> [b \in 0 .. 15 |->
        ((a + b) % 2)
        + 2 * ((a \div 2 + b \div 2) % 2)
        + 4 * ((a \div 4 + b \div 4) % 2)
        + 8 * ((a \div 8 + b \div 8) % 2)]]

\* a ^ b on 16-bit values
Xor16(a, b) ==
    Xor4[a % 16][b % 16]
    + 16 * Xor4[(a \div 16) % 16][(b \div 16) % 16]
    + 256 * Xor4[(a \div 256) % 16][(b \div 256) % 16]
    + 4096 * Xor4[a \div 4096][b \div 4096]

\* uint32_t xorshifted = ((pcgState >> 18u) ^ pcgState) >> 27u, as <<high, low>>
XorShifted(s) ==
    <<Xor16(Win16(s, 61), Win16(s, 43)), Xor16(Win16(s, 45), Win16(s, 27))>>

\* (x >> r) | (x << (16 - r)) on the 32-bit value <<h, l>>, for r < 16
Rotr16(h, l, r) ==
    <<h \div (2 ^ r) + (l % (2 ^ r)) * (2 ^ (16 - r)),
      l \div (2 ^ r) + (h % (2 ^ r)) * (2 ^ (16 - r))>>

\* (x >> rot) | (x << ((-rot) & 31)) on the uint32_t x = <<high, low>>
Rotr32(x, rot) ==
    IF rot >= 16 THEN Rotr16(x[2], x[1], rot - 16) ELSE Rotr16(x[1], x[2], rot)

\* The uint32_t computed from the advanced state; rot = pcgState >> 59u.
PcgOutput(rng) ==
    [rng |-> rng,
     x   |-> Rotr32(XorShifted(rng.pcgState), rng.pcgState[8] \div 8)]

\* pcg32_next: the new generator and the uint32_t drawn.
pcg32_next(rng) ==
    PcgOutput([rng EXCEPT !.pcgState = MulAdd64(rng.pcgState, rng.pcgSeq)])

\* x % n for a uint32_t x = <<high, low>> and 0 < n <= 65536
U32Mod(x, n) == ((x[1] % n) * (65536 % n) + x[2]) % n

\* x - r > (-n) in uint32_t arithmetic, i.e. x - r > 2^32 - n, where r = x % n:
\* equivalently (2^32 - 1 - x) + r <= n - 2, which needs the high half of x
\* to be all ones.
Rejected(x, r, n) == x[1] = 65535 /\ (65535 - x[2]) + r <= n - 2

\* pcg32_bounded: redraw while the draw is rejected. Bounded is the loop
\* body applied to the draw d of pcg32_next.
RECURSIVE pcg32_bounded(_, _)
Bounded(d, n) ==
    IF Rejected(d.x, U32Mod(d.x, n), n) THEN pcg32_bounded(d.rng, n)
    ELSE [rng |-> d.rng, r |-> U32Mod(d.x, n)]

pcg32_bounded(rng, n) == Bounded(pcg32_next(rng), n)

\* return a + pcg32_bounded(b - a + 1), applied to the draw d
RndFrom(d, a) == [rng |-> d.rng, r |-> a + d.r]

\* rnd(a, b): uniformly distributed in [a, b], inclusive
rnd(rng, a, b) == RndFrom(pcg32_bounded(rng, b - a + 1), a)

\* ------------------------------------------------------------------------
\* Joystick state (src/xjump.c 321-421, src/main.c 204-298)
\* ------------------------------------------------------------------------

\* The keys of the model: one key bound to each of JUMP, LEFT and RIGHT, a
\* second key bound to JUMP, the pause key P and one unbound key; the value
\* is translateHotkey's result.
Keys == {"UP", "SPACE", "LEFT", "RIGHT", "P", "X"}

translateHotkey(key) ==
    CASE key \in {"UP", "SPACE"} -> "JUMP"
      [] key = "LEFT"            -> "LEFT"
      [] key = "RIGHT"           -> "RIGHT"
      [] OTHER                   -> "OTHER"

\* A variant that clears the flags and leaves the direction.
init_input_KeepsDirection(k) ==
    [horizDirection |-> k.horizDirection,
     isPressing |-> [i \in {"JUMP", "LEFT", "RIGHT", "OTHER"} |->
                        IF i = "OTHER" THEN k.isPressing[i] ELSE FALSE]]

\* static struct K, zero-initialised; init_input does not touch the
\* INPUT_OTHER slot.
init_input(k) ==
    [horizDirection |-> "NEUTRAL",
     isPressing |-> [i \in {"JUMP", "LEFT", "RIGHT", "OTHER"} |->
                        IF i = "OTHER" THEN k.isPressing[i] ELSE FALSE]]

KZero ==
    [horizDirection |-> "NEUTRAL",
     isPressing |-> [i \in {"JUMP", "LEFT", "RIGHT", "OTHER"} |-> FALSE]]

\* src/xjump.c input_keydown: unbound keys change nothing.
input_keydown(k, key) ==
    LET input == translateHotkey(key)
    IN  IF input = "OTHER" THEN k
        ELSE [isPressing |-> [k.isPressing EXCEPT ![input] = TRUE],
              horizDirection |->
                  CASE input = "LEFT"  -> "LEFT"
                    [] input = "RIGHT" -> "RIGHT"
                    [] OTHER           -> k.horizDirection]

\* A variant that leaves the direction alone when a key goes up.
input_keyup_KeepsDirection(k, key) ==
    LET input == translateHotkey(key)
    IN  IF input = "OTHER" THEN k
        ELSE [k EXCEPT !.isPressing[input] = FALSE]

\* src/xjump.c input_keyup
input_keyup(k, key) ==
    LET input == translateHotkey(key)
        p == [k.isPressing EXCEPT ![input] = FALSE]
    IN  IF input = "OTHER" THEN k
        ELSE [isPressing |-> p,
              horizDirection |->
                  CASE input = "LEFT"  -> (IF p["RIGHT"] THEN "RIGHT" ELSE "NEUTRAL")
                    [] input = "RIGHT" -> (IF p["LEFT"] THEN "LEFT" ELSE "NEUTRAL")
                    [] OTHER           -> k.horizDirection]

\* src/main.c input_keydown: the INPUT_OTHER slot is written too.
main_input_keydown(k, key) ==
    LET input == translateHotkey(key)
    IN  [isPressing |-> [k.isPressing EXCEPT ![input] = TRUE],
         horizDirection |->
             CASE input = "LEFT"  -> "LEFT"
               [] input = "RIGHT" -> "RIGHT"
               [] OTHER           -> k.horizDirection]

\* A variant whose default case recomputes the direction like INPUT_RIGHT.
main_input_keyup_Fallthrough(k, key) ==
    LET input == translateHotkey(key)
        p == [k.isPressing EXCEPT ![input] = FALSE]
    IN  [isPressing |-> p,
         horizDirection |->
             CASE input = "LEFT"  -> (IF p["RIGHT"] THEN "RIGHT" ELSE "NEUTRAL")
               [] OTHER           -> (IF p["LEFT"] THEN "LEFT" ELSE "NEUTRAL")]

\* src/main.c input_keyup
main_input_keyup(k, key) ==
    LET input == translateHotkey(key)
        p == [k.isPressing EXCEPT ![input] = FALSE]
    IN  [isPressing |-> p,
         horizDirection |->
             CASE input = "LEFT"  -> (IF p["RIGHT"] THEN "RIGHT" ELSE "NEUTRAL")
               [] input = "RIGHT" -> (IF p["LEFT"] THEN "LEFT" ELSE "NEUTRAL")
               [] OTHER           -> k.horizDirection]

\* ------------------------------------------------------------------------
\* Game logic (src/xjump.c 445-687, src/main.c 303-555)
\* ------------------------------------------------------------------------

S == 16
R == 32
FIELD_W == 32
FIELD_H == 24
FIELD_EXTRA == 3
NFLOORS == 64
GAME_SPEED == 25
MAX_SCROLL_SPEED == 5000
SCROLL_THRESHOLD == 20000
\* the delay of "if (deathTime + 2000 <= currTime)"
GameOverMs == 2000

leftLimit == S
rightLimit == (FIELD_W - 1) * S - R
topLimit == 5 * S
botLimit == FIELD_H * S

\* Number of floors held in memory: Floor floors[NFLOORS] in xjump.c,
\* Floor floors[FIELD_H] in main.c.
Capacity(p) == IF p = "main" THEN FIELD_H ELSE NFLOORS

\* A "world" w is the pair of the game struct and the generator:
\* [G |-> the struct G, rng |-> pcgState and pcgSeq, cap |-> the ring size].

get_floor(g, n, cap) == g.floors[mod(n, cap)]

\* floor->left = l; floor->right = r; G.next_floor++
PutFloor(w, l, r) ==
    [w EXCEPT !.G.floors[mod(w.G.next_floor, w.cap)] = [left |-> l, right |-> r],
              !.G.next_floor = @ + 1]

\* The numbers drawn so far by generate_floor, in order, with the generator.
NextDraw(acc, a, b) == [rnd(acc.rng, a, b) EXCEPT !.r = Append(acc.r, @)]

\* The four draws of a platform row: the side, the shift of fpos and the
\* two half widths.
FloorDraws(w) ==
    NextDraw(NextDraw(NextDraw(NextDraw([rng |-> w.rng, r |-> <<>>], 0, 1),
                               5, 9), 2, 4), 2, 4)

\* A variant with the remainder of C in place of mod.
MoveFpos_CRemainder(w, side, shift) ==
    [w EXCEPT !.G.fpos = CMod(@ + (IF side # 0 THEN 1 ELSE -1) * shift, 22)]

\* G.fpos = mod(G.fpos + sign * shift, 22), where sign = (side ? 1 : -1)
MoveFpos(w, side, shift) ==
    [w EXCEPT !.G.fpos = mod(@ + (IF side # 0 THEN 1 ELSE -1) * shift, 22)]

\* the platform around the new fpos
PlaceFloor(w, wl, wr) == PutFloor(w, w.G.fpos + 5 - wl, w.G.fpos + 5 + wr)

RandomFloor(w, d) ==
    PlaceFloor(MoveFpos([w EXCEPT !.rng = d.rng], d.r[1], d.r[2]), d.r[3], d.r[4])

\* A variant that tests n % 5 before n % 250.
generate_floor_RandomFirst(w) ==
    IF CMod(w.G.next_floor, 5) = 0 THEN RandomFloor(w, FloorDraws(w))
    ELSE IF CMod(w.G.next_floor, 250) = 0 THEN PutFloor(w, 1, 30)
    ELSE PutFloor(w, -10, -20)

generate_floor(w) ==
    IF CMod(w.G.next_floor, 250) = 0 THEN PutFloor(w, 1, 30)
    ELSE IF CMod(w.G.next_floor, 5) = 0 THEN RandomFloor(w, FloorDraws(w))
    ELSE PutFloor(w, -10, -20)

\* for (int i = 0; i < NFLOORS; i++) generate_floor(): the loop runs until
\* next_floor has grown by the ring size, i.e. up to row `stop` (excluded).
RECURSIVE generate_floors(_, _)
generate_floors(w, stop) ==
    IF w.G.next_floor >= stop THEN w ELSE generate_floors(generate_floor(w), stop)

\* The fields init_game sets before it generates the floors; d is the draw
\* rnd(0, 21) for G.fpos and speed the initial scroll speed.
InitFields(w, d, speed) ==
    [w EXCEPT !.rng = d.rng,
              !.G = [w.G EXCEPT !.score = 0,
                                !.x = (FIELD_W \div 2) * S - R \div 2,
                                !.y = (FIELD_H - 4) * S - R,
                                !.vx = 0, !.vy = 0, !.jump = 0,
                                !.isStanding = TRUE,
                                !.hasStarted = FALSE, !.floorOffset = 20,
                                !.forcedScroll = 0, !.scrollCount = 0,
                                !.scrollSpeed = speed,
                                !.fpos = d.r, !.next_floor = -3]]

\* src/xjump.c init_game
init_game(w) ==
    generate_floors(InitFields(w, rnd(w.rng, 0, 21), 0), -3 + w.cap)

\* src/main.c init_game: the scroll speed starts at 200 (and there is no
\* forcedScroll field: it stays 0 in the model).
main_init_game(w) ==
    generate_floors(InitFields(w, rnd(w.rng, 0, 21), 200), -3 + w.cap)

\* The zero-initialised static struct G, before init_game. The fields that
\* only select the hero's sprite (isFacingRight, isIdleVariant, idleCount)
\* are left out: nothing in the simulation reads them.
GZero(cap) ==
    [score |-> 0, x |-> 0, y |-> 0, vx |-> 0, vy |-> 0, jump |-> 0,
     isStanding |-> FALSE, hasStarted |-> FALSE, floorOffset |-> 0,
     forcedScroll |-> 0, scrollCount |-> 0, scrollSpeed |-> 0,
     fpos |-> 0, next_floor |-> 0,
     floors |-> [i \in 0 .. cap - 1 |-> [left |-> 0, right |-> 0]]]

\* G.floorOffset += 1; G.y += S; if (G.forcedScroll >= S) G.forcedScroll -= S;
ScrollUp(g) ==
    [g EXCEPT !.floorOffset = @ + 1, !.y = @ + S,
              !.forcedScroll = IF @ >= S THEN @ - S ELSE @]

\* A variant that leaves G.forcedScroll as it is.
scroll_KeepsForced(w) ==
    [generate_floor(w) EXCEPT !.G = [@ EXCEPT !.floorOffset = @ + 1, !.y = @ + S]]

\* A variant that scrolls without generating the row that comes into view.
scroll_NoFloor(w) == [w EXCEPT !.G = ScrollUp(@)]

\* src/xjump.c scroll
scroll(w) == [generate_floor(w) EXCEPT !.G = ScrollUp(@)]

\* src/main.c scroll
main_scroll(w) ==
    [generate_floor(w) EXCEPT !.G = [@ EXCEPT !.floorOffset = @ + 1, !.y = @ + S]]

\* A variant without the test of the bottom of the field.
isStanding_NoBottom(g, cap, hx, hy) ==
    IF g.vy < 0 THEN FALSE
    ELSE LET fl == get_floor(g, g.floorOffset - CDiv(hy + R, S), cap)
         IN  fl.left * S - 24 <= hx /\ hx <= fl.right * S + 8

\* isStanding(hx, hy); main.c's isStanding() is the same test at (G.x, G.y).
isStanding(g, cap, hx, hy) ==
    IF g.vy < 0 THEN FALSE
    ELSE LET y == CDiv(hy + R, S)
         IN  IF y >= FIELD_H THEN FALSE
             ELSE LET fl == get_floor(g, g.floorOffset - y, cap)
                  IN  fl.left * S - 24 <= hx /\ hx <= fl.right * S + 8

\* A variant that leaves the hero where it fell.
collideWithFloor_NoSnap(hy) == hy

collideWithFloor(hy) == CDiv(hy, S) * S

\* ---- one simulation tick, src/xjump.c updateGame (584-687) ----

\* G.x += G.vx / 2; G.y += G.vy;
Integrate(g) == [g EXCEPT !.x = @ + CDiv(g.vx, 2), !.y = @ + g.vy]

\* A variant without the dampening "- 2".
CollideLeft_NoDamping(g) ==
    IF g.x < leftLimit /\ g.vx <= 0
    THEN [g EXCEPT !.x = leftLimit + CDiv(max(0, leftLimit - g.x), 2),
                   !.vx = CDiv(-g.vx, 2)]
    ELSE g

CollideLeft(g) ==
    IF g.x < leftLimit /\ g.vx <= 0
    THEN [g EXCEPT !.x = leftLimit + CDiv(max(0, leftLimit - g.x - 2), 2),
                   !.vx = CDiv(-g.vx, 2)]
    ELSE g

CollideRight(g) ==
    IF g.x > rightLimit /\ g.vx >= 0
    THEN [g EXCEPT !.x = rightLimit - CDiv(max(0, g.x - rightLimit - 2), 2),
                   !.vx = CDiv(-g.vx, 2)]
    ELSE g

CollideWalls(g) == CollideRight(CollideLeft(g))

\* int n = (G.floorOffset - (G.y + R)/S) / 5; if (n > G.score) G.score = n;
\* A variant that forgets the comparison: G.score = n.
UpdateScore_NoMax(g) ==
    [g EXCEPT !.score = CDiv(g.floorOffset - CDiv(g.y + R, S), 5)]

UpdateScore(g) ==
    LET n == CDiv(g.floorOffset - CDiv(g.y + R, S), 5)
    IN  IF n > g.score THEN [g EXCEPT !.score = n] ELSE g

\* if (K.isPressing[INPUT_JUMP]) { ... } in xjump.c
StartJump(g, k) ==
    IF k.isPressing["JUMP"]
    THEN LET j == CDiv(abs(g.vx), 4) + 7
         IN  [g EXCEPT !.jump = j,
                       !.vy = CDiv(-j, 2) - 12,
                       !.isStanding = TRUE,
                       !.hasStarted = TRUE,
                       !.scrollSpeed = IF g.hasStarted THEN @ ELSE 200]
    ELSE g

\* if (K.isPressing[INPUT_JUMP]) { ... } in main.c
main_StartJump(g, k) ==
    IF k.isPressing["JUMP"]
    THEN LET j == CDiv(abs(g.vx), 4) + 7
         IN  [g EXCEPT !.jump = j,
                       !.vy = CDiv(-j, 2) - 12,
                       !.isStanding = TRUE,
                       !.hasStarted = TRUE]
    ELSE g

\* The body of "if (G.isStanding) {...}" up to the jump (the idle animation
\* counter, which only selects a sprite, is not modelled).
Land(g) ==
    UpdateScore([g EXCEPT !.y = collideWithFloor(g.y), !.vy = 0])

\* G.isStanding = isStanding(G.x, G.y); if (G.isStanding) { ... }
CollideFloors(g, k, cap) ==
    IF isStanding(g, cap, g.x, g.y)
    THEN StartJump(Land([g EXCEPT !.isStanding = TRUE]), k)
    ELSE [g EXCEPT !.isStanding = FALSE]

main_CollideFloors(g, k, cap) ==
    IF isStanding(g, cap, g.x, g.y)
    THEN main_StartJump(Land([g EXCEPT !.isStanding = TRUE]), k)
    ELSE [g EXCEPT !.isStanding = FALSE]

\* A variant that accelerates on the ground as slowly as in the air.
Accelerate_AirStep(g, k) ==
    LET accelx == 2
    IN  CASE k.horizDirection = "LEFT" ->
               [g EXCEPT !.vx = max(g.vx - accelx, -32)]
          [] k.horizDirection = "RIGHT" ->
               [g EXCEPT !.vx = min(g.vx + accelx, 32)]
          [] OTHER ->
               IF g.isStanding
               THEN [g EXCEPT !.vx = IF g.vx < -2 THEN g.vx + 3
                                     ELSE IF g.vx > 2 THEN g.vx - 3
                                     ELSE 0]
               ELSE g

\* A variant whose decay steps over zero.
Accelerate_Overshoot(g, k) ==
    LET accelx == IF g.isStanding THEN 3 ELSE 2
    IN  CASE k.horizDirection = "LEFT" ->
               [g EXCEPT !.vx = max(g.vx - accelx, -32)]
          [] k.horizDirection = "RIGHT" ->
               [g EXCEPT !.vx = min(g.vx + accelx, 32)]
          [] OTHER ->
               IF g.isStanding
               THEN [g EXCEPT !.vx = IF g.vx < 0 THEN g.vx + 3
                                     ELSE IF g.vx > 0 THEN g.vx - 3
                                     ELSE 0]
               ELSE g

\* int accelx = ...; switch (K.horizDirection) { ... }
Accelerate(g, k) ==
    LET accelx == IF g.isStanding THEN 3 ELSE 2
    IN  CASE k.horizDirection = "LEFT" ->
               [g EXCEPT !.vx = max(g.vx - accelx, -32)]
          [] k.horizDirection = "RIGHT" ->
               [g EXCEPT !.vx = min(g.vx + accelx, 32)]
          [] OTHER ->
               IF g.isStanding
               THEN [g EXCEPT !.vx = IF g.vx < -2 THEN g.vx + 3
                                     ELSE IF g.vx > 2 THEN g.vx - 3
                                     ELSE 0]
               ELSE g

\* A variant that spends the jump budget whether Jump is held or not.
Airborne_IgnoresRelease(g, k) ==
    IF g.isStanding THEN g
    ELSE IF g.jump > 0
         THEN [g EXCEPT !.vy = CDiv(-g.jump, 2) - 12, !.jump = g.jump - 1]
         ELSE [g EXCEPT !.vy = min(g.vy + 2, 16), !.jump = 0]

\* A variant that grants a tick of budget to Jump pressed in the air.
Airborne_Regains(g, k) ==
    IF g.isStanding THEN g
    ELSE IF g.jump > 0
         THEN [g EXCEPT !.vy = CDiv(-g.jump, 2) - 12,
                        !.jump = IF k.isPressing["JUMP"] THEN g.jump - 1 ELSE 0]
         ELSE [g EXCEPT !.vy = min(g.vy + 2, 16),
                        !.jump = IF k.isPressing["JUMP"] THEN 1 ELSE 0]

\* A variant with half the gravity.
Airborne_HalfGravity(g, k) ==
    IF g.isStanding THEN g
    ELSE IF g.jump > 0
         THEN [g EXCEPT !.vy = CDiv(-g.jump, 2) - 12,
                        !.jump = IF k.isPressing["JUMP"] THEN g.jump - 1 ELSE 0]
         ELSE [g EXCEPT !.vy = min(g.vy + 1, 16), !.jump = 0]

\* A variant without gravity.
Airborne_NoGravity(g, k) ==
    IF g.isStanding THEN g
    ELSE IF g.jump > 0
         THEN [g EXCEPT !.vy = CDiv(-g.jump, 2) - 12,
                        !.jump = IF k.isPressing["JUMP"] THEN g.jump - 1 ELSE 0]
         ELSE [g EXCEPT !.jump = 0]

\* if (!G.isStanding) { ... }
Airborne(g, k) ==
    IF g.isStanding THEN g
    ELSE IF g.jump > 0
         THEN [g EXCEPT !.vy = CDiv(-g.jump, 2) - 12,
                        !.jump = IF k.isPressing["JUMP"] THEN g.jump - 1 ELSE 0]
         ELSE [g EXCEPT !.vy = min(g.vy + 2, 16), !.jump = 0]

\* A variant that never counts towards the next scroll.
AdvanceScroll_Stopped(g) == g

\* A variant whose scroll speed grows without a cap.
AdvanceScroll_NoCap(g) ==
    IF g.hasStarted
    THEN [g EXCEPT !.scrollSpeed = @ + 1, !.scrollCount = @ + g.scrollSpeed + 1]
    ELSE g

\* A variant that counts towards the next scroll before the first jump too.
AdvanceScroll_Ungated(g) ==
    LET sp == min(MAX_SCROLL_SPEED, g.scrollSpeed + 1)
    IN  [g EXCEPT !.scrollSpeed = sp, !.scrollCount = @ + sp]

\* if (G.hasStarted) { speed up; G.scrollCount += G.scrollSpeed; }
AdvanceScroll(g) ==
    IF g.hasStarted
    THEN LET sp == min(MAX_SCROLL_SPEED, g.scrollSpeed + 1)
         IN  [g EXCEPT !.scrollSpeed = sp, !.scrollCount = @ + sp]
    ELSE g

\* while (G.scrollCount > SCROLL_THRESHOLD) { ...; scroll(); }
RECURSIVE ScrollByCount(_)
ScrollByCount(w) ==
    IF w.G.scrollCount > SCROLL_THRESHOLD
    THEN ScrollByCount(scroll([w EXCEPT !.G.scrollCount = @ - SCROLL_THRESHOLD]))
    ELSE w

\* while (G.y < topLimit) { scroll(); }
RECURSIVE ScrollToTopLimit(_)
ScrollToTopLimit(w) ==
    IF w.G.y < topLimit THEN ScrollToTopLimit(scroll(w)) ELSE w

\* if (!isSoftScroll && !G.isStanding) { while ... }
ForceScroll(w, soft) ==
    IF ~soft /\ ~w.G.isStanding THEN ScrollToTopLimit(w) ELSE w

\* if (G.y + G.forcedScroll >= botLimit) return true;
IsGameOver(g) == g.y + g.forcedScroll >= botLimit

\* The hero's part of the tick: movement, walls, floors, acceleration.
MoveHero(g, k, cap) ==
    Airborne(Accelerate(CollideFloors(CollideWalls(Integrate(g)), k, cap), k), k)

\* return G.y + G.forcedScroll >= botLimit, with the world reached
TickResult(w) == [w |-> w, over |-> IsGameOver(w.G)]

\* updateGame(): the world after the tick and the value returned.
updateGame(w, k, soft) ==
    TickResult(ForceScroll(
        ScrollByCount([w EXCEPT !.G = AdvanceScroll(MoveHero(@, k, w.cap))]),
        soft))

\* ---- the STATE_RUNNING part of src/main.c update_game (457-555) ----

\* if (G.scrollSpeed < 5000) G.scrollSpeed++; G.scrollCount += G.scrollSpeed;
main_SpeedUp(g) ==
    [g EXCEPT !.scrollSpeed = IF @ < 5000 THEN @ + 1 ELSE @,
              !.scrollCount = @ + (IF g.scrollSpeed < 5000 THEN g.scrollSpeed + 1
                                   ELSE g.scrollSpeed)]

\* if (G.scrollCount > 20000) { G.scrollCount -= 20000; scroll(); }
main_ScrollByCount(w) ==
    IF w.G.scrollCount > 20000
    THEN main_scroll([w EXCEPT !.G.scrollCount = @ - 20000])
    ELSE w

\* if (G.hasStarted) { ... }
main_AdvanceScroll(w) ==
    IF w.G.hasStarted
    THEN main_ScrollByCount([w EXCEPT !.G = main_SpeedUp(@)])
    ELSE w

\* if (G.y >= S*FIELD_H) { G.state = STATE_GAMEOVER; ...; return; }
main_IsGameOver(g) == g.y >= S * FIELD_H

\* if (G.y < 5*S) { G.scrollCount = 0; scroll(); }
main_ForceScroll(w) ==
    IF w.G.y < 5 * S
    THEN main_scroll([w EXCEPT !.G.scrollCount = 0])
    ELSE w

\* What follows the game-over test in update_game.
main_MoveHero(w, k) ==
    [w EXCEPT !.G = Airborne(Accelerate(main_CollideFloors(CollideWalls(@), k, w.cap),
                                        k), k)]

\* w is the world after the scroll count and the movement of the hero.
main_AfterMove(w, k) ==
    IF main_IsGameOver(w.G) THEN [w |-> w, over |-> TRUE]
    ELSE [w |-> main_MoveHero(main_ForceScroll(w), k), over |-> FALSE]

main_update_running(w, k) ==
    main_AfterMove([main_AdvanceScroll(w) EXCEPT !.G = Integrate(@)], k)

\* ---- soft-scroll interpolation, src/xjump.c main (1226-1250, 1288-1294) ----

\* A variant that snaps the predicted hero to the grid whether it stands or
\* not.
Interpolate_SnapsAlways(g, cap, dt) ==
    LET hx0 == g.x + CDiv(CDiv(g.vx, 2) * dt, GAME_SPEED)
        hx  == IF hx0 < leftLimit THEN leftLimit
               ELSE IF hx0 > rightLimit THEN rightLimit ELSE hx0
        hy0 == g.y + CDiv(g.vy * dt, GAME_SPEED)
        stand == isStanding(g, cap, hx, hy0)
        hy  == collideWithFloor(hy0)
        c   == g.scrollCount + CDiv(dt * g.scrollSpeed, GAME_SPEED)
        sy  == hy + g.forcedScroll + CDiv(S * c, SCROLL_THRESHOLD)
    IN  [hx |-> hx, hy0 |-> hy0, hy |-> hy, stand |-> stand, sx |-> hx, sy |-> sy]

\* The predicted hero position at dt = currTime - frameTime.
Interpolate(g, cap, dt) ==
    LET hx0 == g.x + CDiv(CDiv(g.vx, 2) * dt, GAME_SPEED)
        hx  == IF hx0 < leftLimit THEN leftLimit
               ELSE IF hx0 > rightLimit THEN rightLimit ELSE hx0
        hy0 == g.y + CDiv(g.vy * dt, GAME_SPEED)
        stand == isStanding(g, cap, hx, hy0)
        hy  == IF stand THEN collideWithFloor(hy0) ELSE hy0
        c   == g.scrollCount + CDiv(dt * g.scrollSpeed, GAME_SPEED)
        sy  == hy + g.forcedScroll + CDiv(S * c, SCROLL_THRESHOLD)
    IN  [hx |-> hx, hy0 |-> hy0, hy |-> hy, stand |-> stand, sx |-> hx, sy |-> sy]

\* if (!stand && sy < topLimit) { G.forcedScroll += ...; G.scrollCount = 0; sy = topLimit; }
ForcedScrollOnDraw(g, ip) ==
    IF ~ip.stand /\ ip.sy < topLimit
    THEN [g EXCEPT !.forcedScroll = @ + (topLimit - ip.sy), !.scrollCount = 0]
    ELSE g

DrawnSy(ip) == IF ~ip.stand /\ ip.sy < topLimit THEN topLimit ELSE ip.sy

\* A variant with "if" in the place of "while".
CatchUpScroll_Once(w) ==
    IF w.G.forcedScroll >= S THEN scroll(w) ELSE w

\* while (G.forcedScroll >= S) { scroll(); }
RECURSIVE CatchUpScroll(_)
CatchUpScroll(w) ==
    IF w.G.forcedScroll >= S THEN CatchUpScroll(scroll(w)) ELSE w

\* The effect on the world of drawing one playfield frame (any state but
\* STATE_HIGHSCORES).
DrawField(w, soft, dt) ==
    IF soft
    THEN CatchUpScroll([w EXCEPT !.G = ForcedScrollOnDraw(w.G, Interpolate(w.G, w.cap, dt))])
    ELSE w

\* The hero's on-screen coordinates in that frame.
SoftHero(ip) == [sx |-> ip.sx, sy |-> DrawnSy(ip)]

DrawnHero(w, soft, dt) ==
    IF soft THEN SoftHero(Interpolate(w.G, w.cap, dt))
    ELSE [sx |-> w.G.x, sy |-> w.G.y]

\* ------------------------------------------------------------------------
\* Bounds of the model
\* ------------------------------------------------------------------------

\* Number of overwritten rows of the ring whose floors are remembered.
BelowRows == 3
\* Number of 128-bit seeds getrandom may deliver in the model.
NSeeds == 1
\* Number of input events, and of stalls of the loop, in a session. The
\* key presses and the resizes that arrive outside STATE_RUNNING, where a
\* key only changes the state, are not counted.
MaxEvents == 2
\* Input events and stalls arrive only in every EventEvery-th iteration
\* of the main loop, its "event slots".
EventEvery == 30
\* The counted events of a game arrive in its first LastEvent event slots.
LastEvent == 6
\* A game is followed for MaxAge event slots after the first counted event
\* of the session (and from its last tick until its scores are shown).
MaxAge == 13
\* Milliseconds between two SDL_GetTicks() calls of the xjump.c loop: an
\* ordinary iteration, and one in which the process was stalled.
FrameMs == 30
StallMs == 1290
\* In STATE_PAUSED and STATE_HIGHSCORES, which only a key press ends, the
\* clock is followed until it is MaxLag milliseconds ahead of frameTime.
MaxLag == 3000
\* In the second run every frame is drawn RefDt milliseconds after the
\* tick before it.
RefDt == 0

\* FloorSpec: the number of seeds, and the row at which generation stops.
NFloorSeeds == 3
MaxRow == 260

\* JumpSpec: the number of ticks the hero may walk before it takes off.
MaxWalk == 24

\* seed[0] and seed[1] of the i-th seed, as bytes.
\* PlaySpec: the ticks followed after a key event in the script of hops and
\* in the script of runs, and the key events of a script.
HopIdle == 450
RunIdle == 90
MaxHops == 2
MaxRuns == 3
WalkTicks == 6
TapIdle == 24
MaxTaps == 4
\* Script "dash": ticks of running before Jump may be pressed, and ticks
\* followed after the last key event.
\* A frame may be drawn at the time of a tick or LateDt ms after it.
LateDt == 24
DashRun == 11
\* Script "quit": ticks within which Jump is released, and ticks followed
\* after that.
QuitHold == 30
EndTicks == 700
DashTicks == 48

\* ScrollSpec: the hero is at the top of the field, where the scroll counter
\* is reset, when the scroll speed is a multiple of ResetEvery, MaxResets
\* times at most.
ResetEvery == 500
MaxResets == 1

Seed0(i) == <<209 + i, 201, 126, 77, 5, 133, 9, 64>>
Seed1(i) == <<3, 31, 250, 21, 118, 2, 99, 197>>

\* ------------------------------------------------------------------------
\* App state and host loop (src/xjump.c 849-888, 1062-1310; src/main.c 820-973)
\* ------------------------------------------------------------------------

VARIABLES
    prog,           \* which revision runs: "xjump" or "main"
    isSoftScroll,   \* --soft-scroll / --hard-scroll
    rng,            \* pcgState, pcgSeq
    G,              \* the game struct
    K,              \* the joystick struct
    currState,      \* currState (xjump.c), G.state (main.c)
    lastDrawn,      \* xjump.c
    currTime, frameTime, pauseTime, deathTime,   \* xjump.c
    needsRepaint, gameOverCount,                 \* main.c: G.needsRepaint, G.gameOverCount
    wasResized,     \* xjump.c: local of the loop body
    pc,             \* position in the loop body
    \* the environment and observations of the run, not program state:
    frames,         \* loop iterations since events could last arrive
    age,            \* event slots passed in the current game
    games,          \* calls of init_game so far
    nEvents,        \* events and stalls counted against MaxEvents
    hsCalls,        \* calls of highscore_update since the current game began
    hsScore,        \* argument of the last highscore_update call
    drawn,          \* hero coordinates of the last playfield frame
    lag,            \* time spent in STATE_RUNNING in the current game minus
                    \* GAME_SPEED times the ticks executed in it
    ref,            \* the game of a second run of the same seed and script
                    \* whose frames are drawn at other times
    airTicks,       \* the last ticks of the game in a row that had no input
                    \* and left the hero off the floors
    below,          \* the floors of the last rows that generate_floor
                    \* overwrote in the ring, the latest first
    \* followed only by the specifications of single components:
    held,           \* JoySpec: the keys that are physically down
    gen,            \* FloorSpec: the floor generated for each row so far
    jumps,          \* JumpSpec: the two jumps that are compared
    play,           \* PlaySpec: the script of the keys and what it has done
    scr             \* ScrollSpec: the scroll registers and the last step on them;
                    \* LoopSpec: the loop that runs and its iterations so far

progVars == <<prog, isSoftScroll>>
simVars  == <<rng, G>>
appVars  == <<currState, lastDrawn, currTime, frameTime, pauseTime, deathTime,
              needsRepaint, gameOverCount, wasResized>>
obsVars  == <<frames, age, games, nEvents, hsCalls, hsScore, drawn, lag, ref,
              airTicks, below>>
unitVars == <<held, gen, jumps, play, scr>>
vars     == <<progVars, simVars, K, appVars, pc, obsVars, unitVars>>

W == [G |-> G, rng |-> rng, cap |-> Capacity(prog)]

\* generate_floor writes row next_floor into the slot of row
\* next_floor - cap: the floors that the calls between g and g2 overwrote,
\* the latest first, followed by the ones in `old`; the last BelowRows are
\* kept.
Overwritten(g, g2, cap, old) ==
    LET k   == g2.next_floor - g.next_floor
        all == [i \in 1..k |-> g.floors[mod(g2.next_floor - cap - i, cap)]] \o old
    IN  SubSeq(all, 1, min(Len(all), BelowRows))

\* What a run shows of its game after a tick.
Obs(g, state) == <<g.x, g.y, g.vx, g.vy, g.score, state>>

\* The second run: the same seed and the same script of events and tick
\* counts, one frame drawn after every tick. `over` says that one of its
\* ticks returned true, `obs` is what it showed after its last tick.
RefW == [G |-> ref.G, rng |-> ref.rng, cap |-> Capacity(prog)]
RefRun(w, over, obs) == [G |-> w.G, rng |-> w.rng, over |-> over, obs |-> obs]
RefTicked(r, soft) ==
    RefRun(DrawField(r.w, soft, RefDt), r.over,
           Obs(r.w.G, IF r.over THEN "GAMEOVER" ELSE "RUNNING"))
RefTick(k, soft) ==
    IF ref.over THEN ref ELSE RefTicked(updateGame(RefW, k, soft), soft)
RefDraw(soft) == RefRun(DrawField(RefW, soft, RefDt), ref.over, ref.obs)

\* The loop is followed while the game is within MaxAge event slots, and
\* from the end of a game until its scores are shown.
InHorizon == age < MaxAge \/ currState = "GAMEOVER"

\* The tick reads no input: no direction and Jump up.
NoInput(k) == k.horizDirection = "NEUTRAL" /\ ~k.isPressing["JUMP"]

\* A counted event (or a stall) may arrive in this iteration.
EventOK == frames = 0 /\ nEvents < MaxEvents /\ age < LastEvent
\* A key press or a resize may arrive in this iteration.
FreeEventOK ==
    frames = 0 /\ (currState = "RUNNING" => nEvents < MaxEvents /\ age < LastEvent)
\* nEvents after a key press or a resize.
Counted == IF currState = "RUNNING" THEN nEvents + 1 ELSE nEvents
\* frames and age at the end of an iteration.
NextSlot ==
    /\ frames' = (frames + 1) % EventEvery
    /\ age' = IF frames + 1 = EventEvery /\ nEvents > 0 THEN age + 1 ELSE age

\* state_set: the app variables after the call, as a record; "ok" is the
\* assertion of the STATE_PAUSED case, "hs" whether highscore_update ran.
App ==
    [currState |-> currState, currTime |-> currTime, frameTime |-> frameTime,
     pauseTime |-> pauseTime, deathTime |-> deathTime, ok |-> TRUE, hs |-> FALSE]

\* A variant that restarts the tick clock at currTime on every entry to
\* STATE_RUNNING, dropping the leftover recorded when pausing.
state_set_NoLeftover(a, state) ==
    CASE state = "RUNNING" ->
           [a EXCEPT !.frameTime = a.currTime, !.currState = state]
      [] state = "PAUSED" ->
           [a EXCEPT !.ok = (a.currState = "RUNNING"),
                     !.pauseTime = a.currTime - a.frameTime,
                     !.currState = state]
      [] state = "GAMEOVER" ->
           [a EXCEPT !.deathTime = a.currTime, !.hs = TRUE, !.currState = state]
      [] OTHER ->
           [a EXCEPT !.currState = state]

\* A variant that forgets to record the time of death.
state_set_NoDeathTime(a, state) ==
    CASE state = "RUNNING" ->
           [a EXCEPT !.frameTime = IF a.currState = "PAUSED"
                                   THEN a.currTime - a.pauseTime
                                   ELSE a.currTime,
                     !.currState = state]
      [] state = "PAUSED" ->
           [a EXCEPT !.ok = (a.currState = "RUNNING"),
                     !.pauseTime = a.currTime - a.frameTime,
                     !.currState = state]
      [] state = "GAMEOVER" ->
           [a EXCEPT !.hs = TRUE, !.currState = state]
      [] OTHER ->
           [a EXCEPT !.currState = state]

\* A variant that also calls highscore_update on entering STATE_HIGHSCORES.
state_set_ScoreTwice(a, state) ==
    CASE state = "RUNNING" ->
           [a EXCEPT !.frameTime = IF a.currState = "PAUSED"
                                   THEN a.currTime - a.pauseTime
                                   ELSE a.currTime,
                     !.currState = state]
      [] state = "PAUSED" ->
           [a EXCEPT !.ok = (a.currState = "RUNNING"),
                     !.pauseTime = a.currTime - a.frameTime,
                     !.currState = state]
      [] state = "GAMEOVER" ->
           [a EXCEPT !.deathTime = a.currTime, !.hs = TRUE, !.currState = state]
      [] OTHER ->
           [a EXCEPT !.hs = TRUE, !.currState = state]

state_set(a, state) ==
    CASE state = "RUNNING" ->
           [a EXCEPT !.frameTime = IF a.currState = "PAUSED"
                                   THEN a.currTime - a.pauseTime
                                   ELSE a.currTime,
                     !.currState = state]
      [] state = "PAUSED" ->
           [a EXCEPT !.ok = (a.currState = "RUNNING"),
                     !.pauseTime = a.currTime - a.frameTime,
                     !.currState = state]
      [] state = "GAMEOVER" ->
           [a EXCEPT !.deathTime = a.currTime, !.hs = TRUE, !.currState = state]
      [] OTHER ->
           [a EXCEPT !.currState = state]

\* The app variables, the highscore observation and the program counter
\* after a handler that left the app record a and continues at p; newGame
\* says that the handler called init_game.
SetApp(a, p, newGame) ==
    /\ currState' = a.currState
    /\ frameTime' = a.frameTime
    /\ pauseTime' = a.pauseTime
    /\ deathTime' = a.deathTime
    /\ hsCalls' = IF a.hs THEN hsCalls + 1 ELSE IF newGame THEN 0 ELSE hsCalls
    /\ hsScore' = IF a.hs THEN G'.score ELSE hsScore
    /\ pc' = IF a.ok THEN p ELSE "aborted"

\* The world before init_game: the zeroed struct G and the generator
\* seeded by pcg32_init with the i-th seed.
Boot(p, i) ==
    [G |-> GZero(Capacity(p)), rng |-> pcg32_init(Seed0(i), Seed1(i)),
     cap |-> Capacity(p)]

\* The program after main's initialisation, at the top of its loop.
Start ==
    /\ prog \in {"xjump", "main"}
    /\ isSoftScroll \in (IF prog = "xjump" THEN BOOLEAN ELSE {FALSE})
    /\ \E i \in 1 .. NSeeds :
         \E w \in {IF prog = "xjump" THEN init_game(Boot(prog, i))
                   ELSE main_init_game(Boot(prog, i))} :
            /\ rng = w.rng /\ G = w.G
            /\ ref = RefRun(w, FALSE, Obs(w.G, "RUNNING"))
    /\ K = init_input(KZero)
    /\ currState = "RUNNING"
    /\ lastDrawn = "RUNNING"
    /\ currTime = 0 /\ frameTime = 0 /\ pauseTime = 0 /\ deathTime = 0
    /\ needsRepaint = FALSE /\ gameOverCount = 0
    /\ wasResized = FALSE
    /\ pc = IF prog = "xjump" THEN "top" ELSE "poll"
    /\ frames = 0 /\ age = 0 /\ games = 1 /\ nEvents = 0
    /\ hsCalls = 0 /\ hsScore = -1
    /\ drawn = [sx |-> -1, sy |-> -1]
    /\ lag = 0
    /\ airTicks = 0
    /\ below = <<>>

Init == Start /\ held = {} /\ gen = <<>> /\ jumps = <<>> /\ play = <<>> /\ scr = <<>>

\* ---- src/xjump.c main loop ----

\* currTime = SDL_GetTicks(); bool wasResized = false;
\* SDL_GetTicks() counts from the initialisation of SDL, and the program
\* only subtracts and compares its readings: the model moves the origin of
\* the clock to frameTime at every reading, which keeps the readings of a
\* session of any length in a finite range. deathTime is only read as
\* deathTime + GameOverMs <= currTime, so a stale one stops at -GameOverMs.
GetTicks ==
    /\ prog = "xjump" /\ pc = "top" /\ InHorizon
    /\ \E dt \in {FrameMs} \cup (IF EventOK THEN {StallMs} ELSE {}) :
         /\ currState \in {"PAUSED", "HIGHSCORES"}
               => currTime + dt - frameTime <= MaxLag
         /\ currTime' = currTime + dt - frameTime
         /\ lag' = IF currState = "RUNNING" THEN lag + dt ELSE lag
         /\ nEvents' = IF dt = StallMs THEN nEvents + 1 ELSE nEvents
    /\ frameTime' = 0
    /\ deathTime' = max(deathTime - frameTime, -GameOverMs)
    /\ wasResized' = FALSE
    /\ pc' = "poll"
    /\ UNCHANGED <<progVars, simVars, K, currState, lastDrawn, pauseTime,
                   needsRepaint, gameOverCount, frames, age, games, hsCalls, hsScore,
                   drawn,
                   ref, unitVars, airTicks, below>>

\* case SDL_KEYDOWN (the Shift+Q exit is part of Quit)
KeyDown ==
    /\ prog = "xjump" /\ pc = "poll" /\ FreeEventOK
    /\ LET reset == currState = "HIGHSCORES"
       IN  /\ \E w \in {IF reset THEN init_game(W) ELSE W} :
                G' = w.G /\ rng' = w.rng
           /\ \E w \in {IF reset THEN init_game(RefW) ELSE RefW} :
                ref' = IF reset THEN RefRun(w, FALSE, Obs(w.G, "RUNNING")) ELSE ref
           /\ lag' = IF reset THEN 0 ELSE lag
           /\ airTicks' = IF reset THEN 0 ELSE airTicks
           /\ below' = IF reset THEN <<>> ELSE below
           /\ age' = IF reset THEN 0 ELSE age
           /\ games' = IF reset THEN games + 1 ELSE games
           /\ \E key \in Keys :
                LET k1 == input_keydown(K, key)
                    a == CASE currState = "RUNNING" ->
                                IF key = "P" THEN state_set(App, "PAUSED") ELSE App
                           [] currState = "PAUSED" -> state_set(App, "RUNNING")
                           [] currState = "GAMEOVER" -> state_set(App, "HIGHSCORES")
                           [] OTHER -> state_set(App, "RUNNING")
                IN  /\ K' = IF reset THEN init_input(k1) ELSE k1
                    /\ SetApp(a, "poll", reset)
    /\ nEvents' = Counted
    /\ UNCHANGED <<progVars, lastDrawn, currTime, needsRepaint, gameOverCount,
                   wasResized, frames, drawn, unitVars>>

\* case SDL_KEYUP
KeyUp ==
    /\ prog = "xjump" /\ pc = "poll" /\ EventOK
    /\ \E key \in Keys : K' = input_keyup(K, key)
    /\ nEvents' = nEvents + 1
    /\ UNCHANGED <<progVars, simVars, appVars, pc, frames, age, games, hsCalls, hsScore,
                   drawn, lag,
                   ref, unitVars, airTicks, below>>

\* A variant of the handler below without its test of currState.
FocusLost_Unguarded ==
    /\ prog = "xjump" /\ pc = "poll" /\ EventOK
    /\ SetApp(state_set(App, "PAUSED"), "poll", FALSE)
    /\ nEvents' = nEvents + 1
    /\ UNCHANGED <<progVars, simVars, K, lastDrawn, currTime, needsRepaint,
                   gameOverCount, wasResized, frames, age, games, drawn, lag,
                   ref, unitVars, airTicks, below>>

\* case SDL_WINDOWEVENT_FOCUS_LOST
FocusLost ==
    /\ prog = "xjump" /\ pc = "poll" /\ EventOK
    /\ SetApp(IF currState = "RUNNING" THEN state_set(App, "PAUSED") ELSE App,
              "poll", FALSE)
    /\ nEvents' = nEvents + 1
    /\ UNCHANGED <<progVars, simVars, K, lastDrawn, currTime, needsRepaint,
                   gameOverCount, wasResized, frames, age, games, drawn, lag,
                   ref, unitVars, airTicks, below>>

\* case SDL_WINDOWEVENT_RESIZED and the like
Resized ==
    /\ prog = "xjump" /\ pc = "poll" /\ FreeEventOK
    /\ wasResized' = TRUE
    /\ nEvents' = Counted
    /\ UNCHANGED <<progVars, simVars, K, currState, lastDrawn, currTime,
                   frameTime, pauseTime, deathTime, needsRepaint, gameOverCount,
                   pc, frames, age, games, hsCalls, hsScore, drawn, lag,
                   ref, unitVars, airTicks, below>>

\* case SDL_QUIT, and Shift+Q: goto quit
Quit ==
    /\ pc = "poll" /\ EventOK
    /\ pc' = "quit"
    /\ nEvents' = nEvents + 1
    /\ UNCHANGED <<progVars, simVars, K, appVars, frames, age, games, hsCalls, hsScore,
                   drawn, lag,
                   ref, unitVars, airTicks, below>>

\* SDL_PollEvent returns 0; switch (currState) of "Run the current state".
RunState ==
    /\ prog = "xjump" /\ pc = "poll"
    /\ CASE currState = "RUNNING" ->
              SetApp(App, "ticks", FALSE)
         [] currState = "GAMEOVER" ->
              SetApp(IF deathTime + GameOverMs <= currTime
                     THEN state_set(App, "HIGHSCORES") ELSE App, "draw", FALSE)
         [] OTHER ->
              SetApp(App, "draw", FALSE)
    /\ UNCHANGED <<progVars, simVars, K, lastDrawn, currTime, needsRepaint,
                   gameOverCount, wasResized, frames, age, games, nEvents, drawn, lag,
                   ref, unitVars, airTicks, below>>

\* A variant without the break.
AfterTick_NoBreak(over) == "ticks"

\* Where the tick loop continues after updateGame returned `over`.
AfterTick(over) == IF over THEN "draw" ELSE "ticks"

\* One iteration of while (frameTime + GAME_SPEED <= currTime) { ... }
Tick ==
    /\ prog = "xjump" /\ pc = "ticks"
    /\ frameTime + GAME_SPEED <= currTime
    /\ \E r \in {updateGame(W, K, isSoftScroll)} :
       LET a == [App EXCEPT !.frameTime = frameTime + GAME_SPEED]
       IN  /\ G' = r.w.G /\ rng' = r.w.rng
           /\ SetApp(IF r.over THEN state_set(a, "GAMEOVER") ELSE a,
                     AfterTick(r.over), FALSE)
    /\ \E q \in {RefTick(K, isSoftScroll)} : ref' = q
    /\ lag' = lag - GAME_SPEED
    /\ airTicks' = IF NoInput(K) /\ ~G'.isStanding THEN airTicks + 1 ELSE 0
    /\ below' = Overwritten(G, G', Capacity(prog), below)
    /\ UNCHANGED <<progVars, K, lastDrawn, currTime, needsRepaint,
                   gameOverCount, wasResized, frames, age, games, nEvents, drawn,
                   unitVars>>

\* The loop condition fails.
TicksDone ==
    /\ prog = "xjump" /\ pc = "ticks"
    /\ ~(frameTime + GAME_SPEED <= currTime)
    /\ pc' = "draw"
    /\ UNCHANGED <<progVars, simVars, K, appVars, frames, age, games, nEvents, hsCalls,
                   hsScore, drawn, lag,
                   ref, unitVars, airTicks, below>>

\* "Draw": the frame is painted when needsRepaint, else SDL_Delay.
Draw ==
    /\ prog = "xjump" /\ pc = "draw"
    /\ LET repaint == currState = "RUNNING" \/ currState # lastDrawn \/ wasResized
           field == repaint /\ currState # "HIGHSCORES"
           dt == currTime - frameTime
       IN  /\ \E w \in {IF field THEN DrawField(W, isSoftScroll, dt) ELSE W} :
                G' = w.G /\ rng' = w.rng
           /\ drawn' = IF field THEN DrawnHero(W, isSoftScroll, dt) ELSE drawn
           /\ \E q \in {IF field /\ currState # "RUNNING"
                        THEN RefDraw(isSoftScroll) ELSE ref} : ref' = q
           /\ lastDrawn' = IF repaint THEN currState ELSE lastDrawn
    /\ NextSlot /\ UNCHANGED games
    /\ pc' = "top"
    /\ UNCHANGED <<progVars, K, currState, currTime, frameTime, pauseTime,
                   deathTime, needsRepaint, gameOverCount, wasResized, nEvents,
                   hsCalls, hsScore, lag, unitVars, airTicks, below>>

XjumpNext ==
    \/ GetTicks \/ KeyDown \/ KeyUp \/ FocusLost \/ Resized \/ RunState
    \/ Tick \/ TicksDone \/ Draw

\* ---- src/main.c main loop ----

\* case SDL_KEYDOWN
main_KeyDown ==
    /\ prog = "main" /\ pc = "poll" /\ FreeEventOK
    /\ LET reset == currState = "HIGHSCORES"
       IN  /\ \E w \in {IF reset THEN main_init_game(W) ELSE W} :
                G' = w.G /\ rng' = w.rng
           /\ needsRepaint' = IF reset THEN FALSE ELSE needsRepaint
           /\ gameOverCount' = IF reset THEN 0 ELSE gameOverCount
           /\ hsCalls' = IF reset THEN 0 ELSE hsCalls
           /\ age' = IF reset THEN 0 ELSE age
           /\ airTicks' = IF reset THEN 0 ELSE airTicks
           /\ below' = IF reset THEN <<>> ELSE below
           /\ games' = IF reset THEN games + 1 ELSE games
           /\ \E key \in Keys :
                LET k1 == main_input_keydown(K, key)
                IN  /\ K' = IF reset THEN init_input(k1) ELSE k1
                    /\ currState' =
                         CASE currState = "RUNNING" ->
                                IF key = "P" THEN "PAUSED" ELSE "RUNNING"
                           [] currState = "PAUSED" -> "RUNNING"
                           [] currState = "GAMEOVER" -> "HIGHSCORES"
                           [] OTHER -> "RUNNING"
    /\ nEvents' = Counted
    /\ UNCHANGED <<progVars, lastDrawn, currTime, frameTime, pauseTime,
                   deathTime, wasResized, pc, frames, hsScore, drawn, lag,
                   ref, unitVars>>

\* case SDL_KEYUP
main_KeyUp ==
    /\ prog = "main" /\ pc = "poll" /\ EventOK
    /\ \E key \in Keys : K' = main_input_keyup(K, key)
    /\ nEvents' = nEvents + 1
    /\ UNCHANGED <<progVars, simVars, appVars, pc, frames, age, games, hsCalls, hsScore,
                   drawn, lag,
                   ref, unitVars, airTicks, below>>

\* case SDL_WINDOWEVENT
main_FocusLost ==
    /\ prog = "main" /\ pc = "poll" /\ EventOK
    /\ currState' = IF currState = "RUNNING" THEN "PAUSED" ELSE currState
    /\ nEvents' = nEvents + 1
    /\ UNCHANGED <<progVars, simVars, K, lastDrawn, currTime, frameTime,
                   pauseTime, deathTime, needsRepaint, gameOverCount,
                   wasResized, pc, frames, age, games, hsCalls, hsScore, drawn, lag,
                   ref, unitVars, airTicks, below>>

\* update_game()
main_Update ==
    /\ prog = "main" /\ pc = "poll" /\ InHorizon
    /\ CASE currState = "GAMEOVER" ->
              /\ gameOverCount' = gameOverCount + 1
              /\ currState' = IF gameOverCount + 1 >= 80 THEN "HIGHSCORES"
                              ELSE currState
              /\ UNCHANGED <<simVars, needsRepaint, hsCalls, hsScore>>
         [] currState \in {"PAUSED", "HIGHSCORES"} ->
              /\ UNCHANGED <<simVars, currState, needsRepaint, gameOverCount,
                             hsCalls, hsScore>>
         [] OTHER ->
              /\ \E r \in {main_update_running(W, K)} :
                     /\ G' = r.w.G /\ rng' = r.w.rng
                     /\ currState' = IF r.over THEN "GAMEOVER" ELSE currState
                     /\ hsCalls' = IF r.over THEN hsCalls + 1 ELSE hsCalls
                     /\ hsScore' = IF r.over THEN r.w.G.score ELSE hsScore
              /\ needsRepaint' = TRUE
              /\ UNCHANGED gameOverCount
    /\ airTicks' = IF currState # "RUNNING" THEN airTicks
                   ELSE IF NoInput(K) /\ ~G'.isStanding THEN airTicks + 1 ELSE 0
    /\ below' = Overwritten(G, G', Capacity(prog), below)
    /\ pc' = "draw"
    /\ UNCHANGED <<progVars, K, lastDrawn, currTime, frameTime, pauseTime,
                   deathTime, wasResized, frames, age, games, nEvents, drawn, lag,
                   ref, unitVars>>

\* "Draw": if (G.needsRepaint) { ... }, then wait for the next frame
main_Draw ==
    /\ prog = "main" /\ pc = "draw"
    /\ needsRepaint' = IF needsRepaint /\ currState \in {"PAUSED", "HIGHSCORES"}
                       THEN FALSE ELSE needsRepaint
    /\ drawn' = IF needsRepaint /\ currState # "HIGHSCORES"
                THEN [sx |-> G.x, sy |-> G.y] ELSE drawn
    /\ NextSlot /\ UNCHANGED games
    /\ pc' = "poll"
    /\ UNCHANGED <<progVars, simVars, K, currState, lastDrawn, currTime,
                   frameTime, pauseTime, deathTime, gameOverCount, wasResized,
                   nEvents, hsCalls, hsScore, lag,
                   ref, unitVars, airTicks, below>>

MainNext ==
    \/ main_KeyDown \/ main_KeyUp \/ main_FocusLost \/ main_Update \/ main_Draw

Next == XjumpNext \/ MainNext \/ Quit

Spec == Init /\ [][Next]_vars

\* ------------------------------------------------------------------------
\* The joystick alone (src/xjump.c 375-421, src/main.c 255-298): every
\* sequence of key-down and key-up events, with the calls of init_input
\* that a reset makes between them.
\* ------------------------------------------------------------------------

joyRest == <<progVars, simVars, appVars, pc, obsVars, gen, jumps, play, scr>>

\* input_keydown(key) of the revision that runs; a key that is down may
\* send the event again (key repeat).
JoyKeyDownOf(key) ==
    /\ K' = IF prog = "xjump" THEN input_keydown(K, key)
            ELSE main_input_keydown(K, key)
    /\ held' = held \cup {key}
    /\ UNCHANGED joyRest

\* input_keyup(key) of the revision that runs, for a key that is down
JoyKeyUpOf(key) ==
    /\ key \in held
    /\ K' = IF prog = "xjump" THEN input_keyup(K, key)
            ELSE main_input_keyup(K, key)
    /\ held' = held \ {key}
    /\ UNCHANGED joyRest

JoyKeyDown == \E key \in Keys : JoyKeyDownOf(key)

JoyKeyUp == \E key \in Keys : JoyKeyUpOf(key)

\* init_input(), as called when a key press in STATE_HIGHSCORES starts a
\* new game; the keys that are down stay down.
JoyReset ==
    /\ K' = init_input(K)
    /\ UNCHANGED <<held, joyRest>>

JoyNext == JoyKeyDown \/ JoyKeyUp \/ JoyReset

JoySpec == Init /\ [][JoyNext]_vars

\* ------------------------------------------------------------------------
\* The floor ring alone (src/xjump.c 496-524, src/main.c 353-381): the
\* calls of generate_floor that init_game and scroll make, from row -3 on,
\* with the floor that each call stored.
\* ------------------------------------------------------------------------

\* The world in init_game when its loop starts.
FloorBoot(p, i) ==
    InitFields(Boot(p, i), rnd(Boot(p, i).rng, 0, 21), IF p = "main" THEN 200 ELSE 0)

FloorInit ==
    /\ prog \in {"xjump", "main"}
    /\ isSoftScroll = FALSE
    /\ \E i \in 1 .. NFloorSeeds :
         \E w \in {FloorBoot(prog, i)} :
            /\ rng = w.rng /\ G = w.G
            /\ ref = RefRun(w, FALSE, Obs(w.G, "RUNNING"))
    /\ K = init_input(KZero)
    /\ currState = "RUNNING" /\ lastDrawn = "RUNNING"
    /\ currTime = 0 /\ frameTime = 0 /\ pauseTime = 0 /\ deathTime = 0
    /\ needsRepaint = FALSE /\ gameOverCount = 0 /\ wasResized = FALSE
    /\ pc = "init_game"
    /\ frames = 0 /\ age = 0 /\ games = 1 /\ nEvents = 0
    /\ hsCalls = 0 /\ hsScore = -1
    /\ drawn = [sx |-> -1, sy |-> -1]
    /\ lag = 0
    /\ airTicks = 0 /\ below = <<>>
    /\ held = {} /\ gen = <<>> /\ jumps = <<>> /\ play = <<>> /\ scr = <<>>

\* generate_floor(), for row G.next_floor
GenerateFloor ==
    /\ G.next_floor < MaxRow
    /\ \E w \in {generate_floor(W)} :
         /\ G' = w.G /\ rng' = w.rng
         /\ gen' = gen @@ (G.next_floor :> get_floor(w.G, G.next_floor, w.cap))
    /\ UNCHANGED <<progVars, K, appVars, pc, obsVars, held, jumps, play, scr>>

FloorSpec == FloorInit /\ [][GenerateFloor]_vars

\* ------------------------------------------------------------------------
\* One jump, twice (src/xjump.c updateGame 584-687, src/main.c update_game
\* 455-555): the hero walks off from the start of a game, takes off, and
\* the rise is simulated once with Jump held and once with Jump released
\* right after take-off, the horizontal input being the same.
\* ------------------------------------------------------------------------

\* The joystick with Jump pressed or not and the direction d.
Stick(jump, d) ==
    [horizDirection |-> d,
     isPressing |-> [i \in {"JUMP", "LEFT", "RIGHT", "OTHER"} |->
                        CASE i = "JUMP" -> jump
                          [] i = d      -> TRUE
                          [] OTHER      -> FALSE]]

\* One tick of the revision that runs; the world after it.
TickOf(w, k) ==
    IF prog = "xjump" THEN updateGame(w, k, isSoftScroll).w
    ELSE main_update_running(w, k).w

\* The height of the hero in the world: scroll() moves y and floorOffset
\* together and leaves it alone.
Height(w) == w.G.floorOffset * S - w.G.y

\* A run of the rise: its world and the greatest height it has had. It is
\* over when the hero no longer moves up.
Rising(run) == run.w.G.vy < 0

RunTick(run, k) ==
    IF Rising(run)
    THEN [w |-> TickOf(run.w, k), apex |-> max(run.apex, Height(TickOf(run.w, k)))]
    ELSE run

Fork(w) == [w |-> w, apex |-> Height(w)]

JumpInit ==
    /\ Start /\ held = {} /\ gen = <<>> /\ play = <<>> /\ scr = <<>>
    /\ \E d \in {"LEFT", "RIGHT", "NEUTRAL"} :
         jumps = [phase |-> "walk", n |-> 0, walk |-> d, dir |-> d,
                  held |-> Fork(W), released |-> Fork(W)]

jumpRest == <<progVars, simVars, K, appVars, pc, obsVars, held, gen, play, scr>>

\* A tick before the jump, with the direction of the walk and Jump up.
JumpWalk ==
    /\ jumps.phase = "walk" /\ jumps.n < MaxWalk
    /\ \E w \in {TickOf(jumps.held.w, Stick(FALSE, jumps.walk))} :
         jumps' = [jumps EXCEPT !.n = @ + 1, !.held = Fork(w), !.released = Fork(w)]
    /\ UNCHANGED jumpRest

\* The tick of the take-off: Jump is down, and the direction is the one of
\* the whole jump.
JumpTakeOff ==
    /\ jumps.phase = "walk"
    /\ \E d \in {"LEFT", "RIGHT", "NEUTRAL"} :
         \E w \in {TickOf(jumps.held.w, Stick(TRUE, d))} :
            /\ w.G.vy < 0
            /\ jumps' = [jumps EXCEPT !.phase = "rise", !.dir = d,
                                      !.held = Fork(w), !.released = Fork(w)]
    /\ UNCHANGED jumpRest

\* A tick of the rise in both runs.
JumpRise ==
    /\ jumps.phase = "rise"
    /\ Rising(jumps.held) \/ Rising(jumps.released)
    /\ jumps' = [jumps EXCEPT
                   !.held = RunTick(@, Stick(TRUE, jumps.dir)),
                   !.released = RunTick(@, Stick(FALSE, jumps.dir))]
    /\ UNCHANGED jumpRest

JumpNext == JumpWalk \/ JumpTakeOff \/ JumpRise

JumpSpec == JumpInit /\ [][JumpNext]_vars

\* ------------------------------------------------------------------------
\* The simulation alone (src/xjump.c updateGame 584-687, src/main.c
\* update_game 455-555): the ticks of one game in STATE_RUNNING, with the
\* key events of a script between them. In the script "tap" Jump is pressed
\* when the game begins, released in the air and pressed again before the
\* hero has landed. In the script "hop" the hero may
\* first walk to another place of the first floor; then Jump is pressed
\* while the hero stands still and released one tick later. In the script
\* "run" a direction key is pressed when the game begins, released, and a
\* direction key is pressed again once the hero is at rest. In the script
\* "dash" a direction key is pressed when the game begins, Jump is pressed
\* and kept down once the hero runs at full speed, and the direction key is
\* released in the air. In the script "quit" Jump is pressed when the game
\* begins and released within QuitHold ticks for good; a direction key may
\* be pressed at that time and is kept down.
\* ------------------------------------------------------------------------

\* One tick of the revision that runs: the world after it and whether the
\* game is over.
TickOut(w, k) ==
    IF prog = "xjump" THEN updateGame(w, k, isSoftScroll)
    ELSE main_update_running(w, k)

\* The hero stands and does not move sideways.
AtRest(g) == g.isStanding /\ g.vx = 0

\* The start of a game that follows the script s.
PlayStart(s) ==
    /\ Start /\ held = {} /\ gen = <<>> /\ jumps = <<>> /\ scr = <<>>
    /\ play = [script |-> s, ev |-> 0, since |-> 0, walk |-> 0,
               arc |-> -1, arcX |-> 0,
               dir |-> "NEUTRAL", run |-> 0, rest |-> FALSE, runX |-> 0,
               dt |-> 0]

PlayInit == \E s \in {"hop", "run", "tap", "dash"} : PlayStart(s)

playRest == <<progVars, appVars, pc, obsVars, gen, jumps, scr>>

\* The key event is the next one of the script.
Scripted(key, down) ==
    IF play.script = "hop"
    THEN IF key = "UP"
         THEN IF down THEN held = {} /\ AtRest(G) /\ play.ev < 2 * MaxHops
              ELSE play.since = 1
         ELSE /\ key \in {"LEFT", "RIGHT"}
              /\ IF down THEN play.walk = 0 /\ play.ev = 0 /\ play.since = 0
                 ELSE play.since > 0
    ELSE IF play.script = "run"
    THEN /\ key \in {"LEFT", "RIGHT"}
         /\ play.ev < MaxRuns
         /\ IF down THEN held = {} /\ (IF play.ev = 0 THEN play.since = 0
                                       ELSE AtRest(G))
            ELSE play.since > 0
    ELSE IF play.script = "tap"
    THEN /\ key = "UP"
         /\ play.ev < MaxTaps
         /\ IF down THEN held = {} /\ (IF play.ev = 0 THEN play.since = 0
                                       ELSE ~G.isStanding)
            ELSE play.since > 0
    ELSE IF play.script = "quit"
    THEN CASE play.ev = 0 -> down /\ key = "UP" /\ play.since = 0
           [] play.ev = 1 -> ~down /\ key = "UP" /\ play.since > 0
           [] play.ev = 2 -> down /\ key \in {"LEFT", "RIGHT"} /\ play.since = 0
           [] OTHER -> FALSE
    ELSE CASE play.ev = 0 -> down /\ key \in {"LEFT", "RIGHT"} /\ play.since = 0
           [] play.ev = 1 -> down /\ key = "UP" /\ play.since >= DashRun
                                  /\ G.isStanding
           [] play.ev = 2 -> ~down /\ key # "UP" /\ ~G.isStanding
           [] OTHER -> FALSE

\* SDL_KEYDOWN: input_keydown(key)
PlayKeyDown ==
    /\ currState = "RUNNING"
    /\ \E key \in Keys :
         /\ Scripted(key, TRUE)
         /\ K' = IF prog = "xjump" THEN input_keydown(K, key)
                 ELSE main_input_keydown(K, key)
         /\ held' = held \cup {key}
         /\ play' = IF play.script = "hop" /\ key # "UP"
                    THEN [play EXCEPT !.walk = 1]
                    ELSE [play EXCEPT !.ev = @ + 1, !.since = 0]
    /\ UNCHANGED <<simVars, playRest>>

\* SDL_KEYUP: input_keyup(key)
PlayKeyUp ==
    /\ currState = "RUNNING"
    /\ \E key \in held :
         /\ Scripted(key, FALSE)
         /\ K' = IF prog = "xjump" THEN input_keyup(K, key)
                 ELSE main_input_keyup(K, key)
         /\ held' = held \ {key}
         /\ play' = IF play.script = "hop" /\ key # "UP"
                    THEN [play EXCEPT !.since = 0]
                    ELSE [play EXCEPT !.ev = @ + 1, !.since = 0]
    /\ UNCHANGED <<simVars, playRest>>

\* What the script has done after a tick from g to g2 that read the keys k:
\* the ticks of the arc that began when Jump was pressed, and the ticks in
\* a row in which one direction was held and the hero stood.
Played(g, g2, k, over) ==
    LET d    == k.horizDirection
        on   == d # "NEUTRAL" /\ g2.isStanding /\ ~over
        goes == on /\ d = play.dir /\ play.run > 0
    IN  [play EXCEPT
           !.since = @ + 1,
           !.arc  = IF k.isPressing["JUMP"] /\ g.isStanding THEN 0
                    ELSE IF @ >= 0 /\ (over \/ ~g2.isStanding) THEN @ + 1
                    ELSE -1,
           !.arcX = IF k.isPressing["JUMP"] /\ g.isStanding THEN g.x ELSE @,
           !.dir  = d,
           !.run  = IF goes THEN @ + 1 ELSE IF on THEN 1 ELSE 0,
           !.rest = IF goes THEN @ ELSE AtRest(g),
           !.runX = IF goes THEN @ ELSE g.x,
           !.dt   = 0]

\* The hero is in the arc of a hop.
InArc == play.arc >= 0

\* The script of hops ends when the arc of its last hop does.
HopsDone == play.script = "hop" /\ play.ev = 2 * MaxHops /\ ~InArc

\* updateGame() in STATE_RUNNING; the game is over when it says so.
PlayTick ==
    /\ currState = "RUNNING" /\ ~HopsDone
    /\ play.since < (IF play.script = "run" THEN RunIdle
                     ELSE IF play.script = "tap" THEN TapIdle
                     ELSE IF play.script = "quit"
                     THEN (IF play.ev = 0 THEN 0
                           ELSE IF play.ev = 1 THEN QuitHold ELSE EndTicks)
                     ELSE IF play.script = "dash"
                     THEN (IF play.ev = 1 THEN DashRun + 2 ELSE DashTicks)
                     ELSE IF held = {} THEN HopIdle
                     ELSE IF held = {"UP"} THEN 1 ELSE WalkTicks)
    /\ \E r \in {TickOut(W, K)} :
         /\ G' = r.w.G /\ rng' = r.w.rng
         /\ currState' = IF r.over THEN "GAMEOVER" ELSE "RUNNING"
         /\ play' = Played(G, r.w.G, K, r.over)
    /\ UNCHANGED <<progVars, K, lastDrawn, currTime, frameTime, pauseTime,
                   deathTime, needsRepaint, gameOverCount, wasResized, pc,
                   obsVars, held, gen, jumps, scr>>

PlayNext == PlayKeyDown \/ PlayKeyUp \/ PlayTick

PlaySpec == PlayInit /\ [][PlayNext]_vars

\* ------------------------------------------------------------------------
\* The simulation with its frames (src/xjump.c main 1226-1250, 1288-1294):
\* the ticks and key events of PlaySpec, and between them the frames that
\* xjump.c draws in STATE_RUNNING, each at a time dt = currTime - frameTime
\* after the last tick that is no earlier than that of the frame before
\* it. The frames of --hard-scroll and of main.c change nothing in the
\* game. The scripts are "run" and "tap".
\* ------------------------------------------------------------------------

\* "Draw" in STATE_RUNNING, dt milliseconds after the last tick.
PlayDraw ==
    /\ prog = "xjump" /\ isSoftScroll /\ currState = "RUNNING"
    /\ \E dt \in {0, LateDt} :
         /\ dt >= play.dt /\ (dt = play.dt => play.since > 0)
         /\ \E w \in {DrawField(W, isSoftScroll, dt)} : G' = w.G /\ rng' = w.rng
         /\ play' = [play EXCEPT !.dt = dt]
    /\ UNCHANGED <<progVars, K, appVars, pc, obsVars, held, gen, jumps, scr>>

FrameNext == PlayNext \/ PlayDraw

FrameInit == \E s \in {"run", "tap"} : PlayStart(s)

FrameSpec == FrameInit /\ [][FrameNext]_vars

\* The same steps for the script "quit".
QuitInit == PlayStart("quit")

QuitSpec == QuitInit /\ [][FrameNext]_vars

\* ------------------------------------------------------------------------
\* The scroll registers alone (src/xjump.c updateGame 621-629 and 663-671,
\* main 1243-1247; src/main.c update_game 459-469, 487-490 and 521-524):
\* hasStarted, scrollSpeed and scrollCount from the start of a game on, tick
\* after tick, whatever the hero does. The hero takes off for the first
\* time in any tick; the statements that reset scrollCount when the hero is
\* at the top of the field run in some of the ticks and frames.
\* ------------------------------------------------------------------------

\* The world with the scroll registers of scr.
ScrollWorld ==
    [W EXCEPT !.G.hasStarted = scr.hasStarted, !.G.scrollSpeed = scr.scrollSpeed,
              !.G.scrollCount = scr.scrollCount]

\* The registers of g after a step; steps is the number of scroll() calls
\* that the scroll counter made in it, peak the counter before them.
Scrolled(g, steps, peak, by) ==
    [hasStarted |-> g.hasStarted, scrollSpeed |-> g.scrollSpeed,
     scrollCount |-> g.scrollCount, steps |-> steps, peak |-> peak,
     resets |-> scr.resets, by |-> by]

ScrollInit ==
    /\ Start /\ held = {} /\ gen = <<>> /\ jumps = <<>> /\ play = <<>>
    /\ scr = [hasStarted |-> G.hasStarted, scrollSpeed |-> G.scrollSpeed,
              scrollCount |-> G.scrollCount, steps |-> 0, peak |-> 0,
              resets |-> 0, by |-> "init_game"]

scrollRest == <<progVars, simVars, K, appVars, pc, obsVars, held, gen, jumps, play>>

\* The hero may be at the top of the field now.
AtTop == scr.hasStarted /\ scr.resets < MaxResets /\ scr.scrollSpeed % ResetEvery = 0

\* A tick of xjump.c in which the hero takes off (jump) or does not.
ScrollTickOf(jump) ==
    LET g0 == ScrollWorld.G
        g1 == AdvanceScroll(IF jump THEN StartJump(g0, Stick(TRUE, "NEUTRAL")) ELSE g0)
        w2 == ScrollByCount([ScrollWorld EXCEPT !.G = g1])
    IN  Scrolled(w2.G, w2.G.floorOffset - g0.floorOffset, g1.scrollCount, "tick")

\* A tick of main.c in which the hero is above 5*S (top) or not, and takes
\* off (jump) or not.
main_ScrollTickOf(jump, top) ==
    LET g0 == ScrollWorld.G
        g1 == IF g0.hasStarted THEN main_SpeedUp(g0) ELSE g0
        w2 == main_AdvanceScroll(ScrollWorld)
        w3 == IF top THEN main_ForceScroll([w2 EXCEPT !.G.y = 0]) ELSE w2
        g4 == IF jump THEN main_StartJump(w3.G, Stick(TRUE, "NEUTRAL")) ELSE w3.G
    IN  [Scrolled(g4, w2.G.floorOffset - g0.floorOffset, g1.scrollCount, "tick")
           EXCEPT !.resets = IF top THEN @ + 1 ELSE @]

ScrollTick ==
    /\ \E jump \in BOOLEAN :
         IF prog = "xjump" THEN scr' = ScrollTickOf(jump)
         ELSE \E top \in {FALSE, AtTop} : scr' = main_ScrollTickOf(jump, top)
    /\ UNCHANGED scrollRest

\* A soft-scroll frame that finds the hero above topLimit.
ScrollDraw ==
    /\ prog = "xjump" /\ isSoftScroll /\ AtTop
    /\ scr' = [Scrolled(ForcedScrollOnDraw(ScrollWorld.G,
                                           [stand |-> FALSE, sy |-> topLimit - 1]),
                        scr.steps, scr.peak, "draw")
                 EXCEPT !.resets = @ + 1]
    /\ UNCHANGED scrollRest

ScrollNext == ScrollTick \/ ScrollDraw

ScrollSpec == ScrollInit /\ [][ScrollNext]_vars

\* ------------------------------------------------------------------------
\* The loops of a tick and of a frame of xjump.c, one iteration a step
\* ------------------------------------------------------------------------

\* The loops: `while (G.scrollCount > SCROLL_THRESHOLD)` and
\* `while (G.y < topLimit)` of updateGame, `while (G.forcedScroll >= S)` of
\* the frame, and the do-while of pcg32_bounded.
ScrollLoops == {"count", "top", "catchup"}

\* Entry values of a loop: LoopEntries values of the register it tests,
\* from below its limit to several iterations beyond it.
LoopEntries == 13
\* The arguments of pcg32_bounded in rnd(0, 21), rnd(0, 1), rnd(5, 9) and
\* rnd(2, 4), and outputs of pcg32_next as <<high, low>> halves: the top
\* of the range, where the do-while draws again, and others.
PcgArgs == {22, 2, 5, 3}
PcgDraws == {<<65535, 65535>>, <<65535, 65530>>, <<65535, 65515>>,
             <<65535, 0>>, <<0, 0>>, <<4660, 22136>>}
\* Draws of one call that are counted.
MaxDraws == 3

LoopInit ==
    /\ Start /\ prog = "xjump"
    /\ held = {} /\ gen = <<>> /\ jumps = <<>> /\ play = <<>>
    /\ scr = [at |-> "tick", kind |-> "none", steps |-> 0, n |-> 0, r |-> 0]

loopRest == <<progVars, K, appVars, pc, obsVars, held, gen, jumps, play>>

\* The tick, the frame or a call of rnd reaches one of the loops.
LoopEnter ==
    /\ scr.at = "tick"
    /\ \E k \in 0 .. LoopEntries :
         \/ /\ G' = [G EXCEPT !.scrollCount = 5000 * k + 1]
            /\ scr' = [scr EXCEPT !.at = "loop", !.kind = "count"]
         \/ /\ ~isSoftScroll
            /\ G' = [G EXCEPT !.isStanding = FALSE, !.y = topLimit - 7 * k]
            /\ scr' = [scr EXCEPT !.at = "loop", !.kind = "top"]
         \/ /\ isSoftScroll
            /\ G' = [G EXCEPT !.forcedScroll = 9 * k]
            /\ scr' = [scr EXCEPT !.at = "loop", !.kind = "catchup"]
    /\ UNCHANGED <<rng, loopRest>>

PcgEnter ==
    /\ scr.at = "tick"
    /\ \E n \in PcgArgs : scr' = [scr EXCEPT !.at = "loop", !.kind = "pcg", !.n = n]
    /\ UNCHANGED <<simVars, loopRest>>

\* The condition of the loop `kind` in the game g.
LoopGuard(kind, g) ==
    CASE kind = "count" -> g.scrollCount > SCROLL_THRESHOLD
      [] kind = "top" -> g.y < topLimit
      [] kind = "catchup" -> g.forcedScroll >= S

InScrollLoop == scr.at = "loop" /\ scr.kind \in ScrollLoops

\* One iteration of a loop that scrolls.
LoopStep ==
    /\ InScrollLoop
    /\ LoopGuard(scr.kind, G)
    /\ \E w \in {scroll(IF scr.kind = "count"
                         THEN [W EXCEPT !.G.scrollCount = @ - SCROLL_THRESHOLD]
                         ELSE W)} :
         G' = w.G /\ rng' = w.rng
    /\ scr' = [scr EXCEPT !.steps = @ + 1]
    /\ UNCHANGED loopRest

\* The condition is false: the loop is left.
LoopExit ==
    /\ InScrollLoop
    /\ ~LoopGuard(scr.kind, G)
    /\ scr' = [scr EXCEPT !.at = "done"]
    /\ UNCHANGED <<simVars, loopRest>>

\* One iteration of pcg32_bounded(scr.n) in which pcg32_next returns x.
PcgDraw(x) ==
    /\ scr.at = "loop" /\ scr.kind = "pcg"
    /\ \E r \in {U32Mod(x, scr.n)} :
         scr' = [scr EXCEPT !.r = r,
                            !.steps = IF @ < MaxDraws THEN @ + 1 ELSE @,
                            !.at = IF Rejected(x, r, scr.n) THEN "loop" ELSE "done"]
    /\ UNCHANGED <<simVars, loopRest>>

PcgReject ==
    /\ scr.kind = "pcg"
    /\ \E x \in PcgDraws : Rejected(x, U32Mod(x, scr.n), scr.n) /\ PcgDraw(x)

PcgAccept ==
    /\ scr.kind = "pcg"
    /\ \E x \in PcgDraws : ~Rejected(x, U32Mod(x, scr.n), scr.n) /\ PcgDraw(x)

LoopNext == LoopEnter \/ PcgEnter \/ LoopStep \/ LoopExit \/ PcgReject \/ PcgAccept

\* The program keeps executing the loop it is in, and the stream of
\* pcg32_next is fair: a value that the do-while accepts is drawn in the end.
\* The first condition is WF_vars(LoopStep \/ LoopExit) with InScrollLoop
\* written for ENABLED <<LoopStep \/ LoopExit>>_vars, which it equals.
LoopSpec ==
    /\ LoopInit /\ [][LoopNext]_vars
    /\ ([]<>~InScrollLoop \/ []<><<LoopStep \/ LoopExit>>_vars)
    /\ WF_vars(PcgAccept)

\* ------------------------------------------------------------------------
\* Properties
\* ------------------------------------------------------------------------

\* C1: determinism. For one seed and one script of input events and tick
\* counts, two runs show the same (x, y, vx, vy, score, state) after every
\* tick, in hard-scroll and in soft-scroll mode, whatever the number and the
\* times of the frames drawn between the ticks. The second run is `ref`.
Deterministic == [][Tick => Obs(G', currState') = ref'.obs]_vars

\* The same for the hard-scroll runs of xjump.c alone.
HardDeterministic == [][Tick /\ ~isSoftScroll => Obs(G', currState') = ref'.obs]_vars

\* The simulated variables that C2 and C3 name.
SimFields(g) ==
    <<g.x, g.y, g.vx, g.vy, g.jump, g.score, g.floorOffset, g.forcedScroll,
      g.scrollCount, g.scrollSpeed, g.next_floor, g.fpos, g.floors>>

\* C2: while the state is Paused every simulated variable keeps the value it
\* had when Paused was entered, whatever happens but the key press that
\* resumes: also when a frame is redrawn after a resize, and in the first
\* frame of the pause screen.
PausedFreezes ==
    [][currState = "PAUSED" /\ currState' = "PAUSED"
         => SimFields(G') = SimFields(G)]_vars

\* C3: in soft-scroll mode, drawing a frame (computing the interpolated
\* position of the hero and of the camera) changes no simulated variable, so
\* the next tick starts from the state the last one left.
DrawIsPure == [][Draw /\ isSoftScroll => SimFields(G') = SimFields(G)]_vars

\* C4 as stated: time that passes while Paused is never turned into ticks,
\* so the number of ticks executed in a game is floor(time spent in Running /
\* GAME_SPEED): when the catch-up loop is left, in Running or by the tick that
\* ended the game, less than one tick of Running time is unsimulated.
TicksAreRunningTime ==
    prog = "xjump" /\ pc = "draw" /\ currState \in {"RUNNING", "GAMEOVER"}
        => lag \in 0 .. GAME_SPEED - 1

\* C4, amended: the leftover currTime - frameTime right after resuming is the
\* leftover recorded when pausing, and whenever the catch-up loop leaves the
\* game Running the ticks executed in the game are floor(time spent in
\* Running / GAME_SPEED), however long and often it was paused. (The tick that
\* ends the game also ends the loop, with the rest of the time unsimulated.)
PausedTimeIsNotSimulated ==
    prog = "xjump" =>
        /\ currState = "PAUSED" => pauseTime = lag
        /\ currState = "RUNNING" => currTime - frameTime = lag
        /\ currState = "RUNNING" /\ pc = "draw" => lag \in 0 .. GAME_SPEED - 1

\* A game resumed after its pause screen was drawn, with a leftover.
ResumedWithLeftover ==
    /\ prog = "xjump" /\ currState = "RUNNING" /\ lastDrawn = "PAUSED"
    /\ pc = "ticks" /\ pauseTime > 0 /\ G.hasStarted

\* The edges of the state machine.
Edges ==
    {<<"RUNNING", "PAUSED">>, <<"RUNNING", "GAMEOVER">>, <<"PAUSED", "RUNNING">>,
     <<"GAMEOVER", "HIGHSCORES">>, <<"HIGHSCORES", "RUNNING">>}

\* C5: the state changes only along Running->Paused, Running->GameOver,
\* Paused->Running, GameOver->Highscores and Highscores->Running, whatever
\* the key, focus and time events; the assertion of state_set(STATE_PAUSED)
\* never fails, and losing the focus changes the state exactly when it is
\* Running.
StateFollowsEdges ==
    [][/\ currState' # currState => <<currState, currState'>> \in Edges
       /\ pc' # "aborted"
       /\ FocusLost \/ main_FocusLost
            => (currState' # currState <=> currState = "RUNNING")]_vars

\* A game that was paused and resumed has ended and its scores are shown.
PausedGameEnded == currState = "HIGHSCORES" /\ pauseTime > 0

\* C6: a tick runs only while the state is Running, and after the tick that
\* signals game over no other tick runs in the same catch-up loop, even with
\* more than one tick of time left.
TicksOnlyWhenRunning ==
    [][Tick \/ (main_Update /\ simVars' # simVars) => currState = "RUNNING"]_vars

\* The catch-up loop was left by the tick that ended the game, with time for
\* another tick.
GameOverWithBudget ==
    prog = "xjump" /\ currState = "GAMEOVER" /\ lag >= GAME_SPEED

\* C7: highscore_update(score) is called exactly once per game, at the
\* transition Running->GameOver and with the score of that moment, and in no
\* other transition or state.
HighscoreOncePerGame ==
    /\ hsCalls = IF currState \in {"GAMEOVER", "HIGHSCORES"} THEN 1 ELSE 0
    /\ hsCalls = 1 => hsScore = G.score

\* A game has just ended with a score, which was reported.
ScoreReported ==
    currState = "GAMEOVER" /\ hsCalls = 1 /\ hsScore = G.score /\ G.score > 0

\* C8: within a game the score never decreases, whatever the ticks, frames
\* and events; it returns to 0 only by the reset that starts a new game.
ScoreNeverDecreases ==
    [][G'.score >= G.score \/ (games' = games + 1 /\ G'.score = 0)]_vars

\* The hero stands on a floor below the highest one it reached.
StandsBelowBest ==
    /\ G.isStanding /\ G.score >= 2
    /\ CDiv(G.floorOffset - CDiv(G.y + R, S), 5) < G.score

\* C9: a tick signals game over exactly when y + forcedScroll >= botLimit at
\* its end; so in every state whose top-level state is Running or Paused
\* y + forcedScroll < botLimit, also after frames that add to forcedScroll or
\* catch up on scroll steps.
AliveAboveBottom ==
    currState \in {"RUNNING", "PAUSED"} => G.y + G.forcedScroll < botLimit

\* C10: the hero never leaves the field upward. In hard-scroll mode y >= 0
\* after every tick, and y >= topLimit after every tick in which the hero is
\* airborne; in soft-scroll mode the sy of every frame drawn is >= 0.
NeverAboveField ==
    /\ ~isSoftScroll => G.y >= 0 /\ (~G.isStanding => G.y >= topLimit)
    /\ isSoftScroll /\ drawn.sx >= 0 => drawn.sy >= 0

\* The part of C10 about the hard-scroll mode of xjump.c.
HardNeverAboveField ==
    prog = "xjump" /\ ~isSoftScroll => G.y >= 0 /\ (~G.isStanding => G.y >= topLimit)

\* The keys bound to an input.
KeysOf(input) == {key \in Keys : translateHotkey(key) = input}

\* C13: the jump intent is the OR over the keys bound to Jump: when one of
\* several jump keys that are down is released, isPressing[INPUT_JUMP] stays
\* true until the last of them is released.
JumpIsOrOfKeys ==
    [][JoyKeyUp /\ K.isPressing["JUMP"] /\ KeysOf("JUMP") \cap held' # {}
         => K'.isPressing["JUMP"]]_vars

\* C14: the most recent of Left and Right wins. A key-down for Left (Right)
\* sets the direction to Left (Right) whatever was held; a key-up for Left
\* (Right) sets it to the opposite direction if that is still flagged as
\* pressed and to Neutral otherwise. Hence after any sequence of events the
\* direction is Left only if Left is flagged, Right only if Right is flagged,
\* and Neutral only if neither is.
MostRecentWins ==
    /\ [](/\ K.horizDirection = "LEFT" => K.isPressing["LEFT"]
          /\ K.horizDirection = "RIGHT" => K.isPressing["RIGHT"]
          /\ K.horizDirection = "NEUTRAL"
               => ~K.isPressing["LEFT"] /\ ~K.isPressing["RIGHT"])
    /\ [][\A key \in Keys :
            /\ JoyKeyDownOf(key) /\ translateHotkey(key) \in {"LEFT", "RIGHT"}
                 => K'.horizDirection = translateHotkey(key)
            /\ JoyKeyUpOf(key) /\ translateHotkey(key) = "LEFT"
                 => K'.horizDirection =
                      IF K.isPressing["RIGHT"] THEN "RIGHT" ELSE "NEUTRAL"
            /\ JoyKeyUpOf(key) /\ translateHotkey(key) = "RIGHT"
                 => K'.horizDirection =
                      IF K.isPressing["LEFT"] THEN "LEFT" ELSE "NEUTRAL"]_vars

\* Left was pressed, then Right, and both are still down.
RightPressedLast ==
    /\ held = {"LEFT", "RIGHT"} /\ K.horizDirection = "RIGHT"
    /\ K.isPressing["LEFT"] /\ K.isPressing["RIGHT"]

\* C15: a key-down or key-up event of a key that is bound to none of Jump,
\* Left and Right leaves the direction and the flags of Jump, Left and Right
\* as they were.
UnboundKeysIgnored ==
    [][\A key \in KeysOf("OTHER") :
          JoyKeyDownOf(key) \/ JoyKeyUpOf(key)
             => /\ K'.horizDirection = K.horizDirection
                /\ \A i \in {"JUMP", "LEFT", "RIGHT"} :
                      K'.isPressing[i] = K.isPressing[i]]_vars

\* An unbound key went down in main.c while Left and Jump were flagged.
UnboundKeyPressed ==
    /\ prog = "main" /\ held = {"LEFT", "UP", "X"} /\ K.isPressing["OTHER"]
    /\ K.horizDirection = "LEFT" /\ K.isPressing["JUMP"]


\* C17: every generated row n with n mod 250 = 0, row 0 under the hero at
\* the start included, is the floor left = 1, right = 30 that spans the whole
\* interior, whatever the generator draws.
RestFloors ==
    \A n \in DOMAIN gen : CMod(n, 250) = 0 => gen[n] = [left |-> 1, right |-> 30]

\* Row 250 was generated, 50 platform rows after row 0.
SecondRestFloor ==
    /\ 250 \in DOMAIN gen /\ gen[250] = gen[0]
    /\ \E n \in DOMAIN gen : gen[n].left <= gen[n].right /\ gen[n] # gen[0]

\* C18 as stated: for every row n, negative ones included, such that rows n
\* and n + capacity have both been generated, get_floor(n) and
\* get_floor(n + capacity) are the same entry of the buffer, and it holds the
\* floor generated for row n + capacity.
RingAsStated ==
    \A n \in DOMAIN gen :
        n + Capacity(prog) \in DOMAIN gen
           => /\ mod(n, Capacity(prog)) = mod(n + Capacity(prog), Capacity(prog))
              /\ get_floor(G, n, Capacity(prog)) = gen[n + Capacity(prog)]

\* C18, amended: get_floor(n) and get_floor(n + capacity) are the same entry
\* of the buffer, and it holds the floor of the last generated row that is
\* congruent to n modulo the capacity: that of row n + capacity until row
\* n + 2 * capacity is generated.
RingHoldsLatest ==
    \A n \in DOMAIN gen :
        n + Capacity(prog) \in DOMAIN gen
           => /\ mod(n, Capacity(prog)) = mod(n + Capacity(prog), Capacity(prog))
              /\ n + 2 * Capacity(prog) \notin DOMAIN gen
                   => get_floor(G, n, Capacity(prog)) = gen[n + Capacity(prog)]
              /\ \E m \in DOMAIN gen :
                   /\ m + Capacity(prog) \notin DOMAIN gen
                   /\ mod(m, Capacity(prog)) = mod(n, Capacity(prog))
                   /\ get_floor(G, n, Capacity(prog)) = gen[m]

\* The entry of a negative row was taken over by the row one capacity above
\* it, which holds another floor than the row two capacities above it.
RingWrapped ==
    /\ -1 + Capacity(prog) \in DOMAIN gen
    /\ -1 + 2 * Capacity(prog) \notin DOMAIN gen
    /\ get_floor(G, -1, Capacity(prog)) = gen[-1 + Capacity(prog)]
    /\ \E n \in DOMAIN gen :
         /\ n + 2 * Capacity(prog) \in DOMAIN gen
         /\ gen[n + 2 * Capacity(prog)] # gen[n + Capacity(prog)]


\* The calls isStanding(hx, hy) that the next step of the program makes, each
\* with the struct G it reads: by the tick of xjump.c, by the soft-scroll
\* frame of xjump.c, and by the tick of main.c.
StandingArg(g, hx, hy) ==
    [g |-> g, hx |-> hx, hy |-> hy,
     below |-> Overwritten(G, g, Capacity(prog), below)]

TickCall(g) == StandingArg(g, g.x, g.y)

DrawCall(ip) == StandingArg(G, ip.hx, ip.hy0)

main_TickCalls(w) ==
    IF main_IsGameOver(w.G) THEN {}
    ELSE {TickCall(CollideWalls(main_ForceScroll(w).G))}

StandingCalls ==
    CASE prog = "xjump" /\ pc = "ticks" /\ frameTime + GAME_SPEED <= currTime ->
           {TickCall(CollideWalls(Integrate(G)))}
      [] prog = "xjump" /\ pc = "draw" /\ isSoftScroll /\ currState # "HIGHSCORES"
           /\ (currState = "RUNNING" \/ currState # lastDrawn \/ wasResized) ->
           {DrawCall(Interpolate(G, Capacity(prog), currTime - frameTime))}
      [] prog = "main" /\ pc = "poll" /\ currState = "RUNNING" ->
           main_TickCalls([main_AdvanceScroll(W) EXCEPT !.G = Integrate(@)])
      [] OTHER -> {}

\* The row of the field that (hx, hy) stands on, and the logical row that is
\* drawn there.
RowOf(a) == CDiv(a.hy + R, S)

LogicalRow(a) == a.g.floorOffset - RowOf(a)

\* The ring holds the last `capacity` rows generated, and a.below the floors
\* of the rows before them: whether the floor generated for the logical row
\* of (hx, hy) is known, and that floor.
RowKnown(a) ==
    /\ LogicalRow(a) < a.g.next_floor
    /\ LogicalRow(a) >= a.g.next_floor - Capacity(prog) - Len(a.below)

FloorOfRow(a) ==
    IF LogicalRow(a) >= a.g.next_floor - Capacity(prog)
    THEN get_floor(a.g, LogicalRow(a), Capacity(prog))
    ELSE a.below[a.g.next_floor - Capacity(prog) - LogicalRow(a)]

OverFloor(a) ==
    FloorOfRow(a).left * 16 - 24 <= a.hx /\ a.hx <= FloorOfRow(a).right * 16 + 8

\* C16 as stated: for every position and velocity that the tick or the
\* renderer passes, isStanding is true iff vy >= 0 and
\* floor.left*16 - 24 <= x <= floor.right*16 + 8 for the floor generated for
\* row floorOffset - (y + 32)/16.
StandingAsStated ==
    \A a \in StandingCalls :
        RowKnown(a)
           => (isStanding(a.g, Capacity(prog), a.hx, a.hy)
                 <=> a.g.vy >= 0 /\ OverFloor(a))

\* C16, amended: isStanding is true iff vy >= 0, the row (y + 32)/16 is above
\* the bottom of the field (less than FIELD_H = 24), and
\* floor.left*16 - 24 <= x <= floor.right*16 + 8 for the floor generated for
\* row floorOffset - (y + 32)/16.
StandingAboveBottom ==
    \A a \in StandingCalls :
        RowKnown(a)
           => (isStanding(a.g, Capacity(prog), a.hx, a.hy)
                 <=> a.g.vy >= 0 /\ RowOf(a) < 24 /\ OverFloor(a))

\* The hero comes down over a floor that has scrolled below the field.
OverFloorBelowField ==
    \E a \in StandingCalls :
        RowKnown(a) /\ a.g.vy >= 0 /\ RowOf(a) >= 24 /\ OverFloor(a)


\* C19: from the same standing state and with the same horizontal input, the
\* jump in which Jump is released on the tick after the take-off has a
\* strictly lower apex, in world pixels, than the jump in which Jump is held
\* throughout the rise.
ReleasedJumpIsLower ==
    jumps # <<>> /\ jumps.phase = "rise"
       /\ ~Rising(jumps.held) /\ ~Rising(jumps.released)
       => jumps.released.apex < jumps.held.apex

\* Both rises are over, and the one with Jump held made the field scroll.
BothJumpsDone ==
    /\ jumps # <<>> /\ jumps.phase = "rise"
    /\ ~Rising(jumps.held) /\ ~Rising(jumps.released)
    /\ jumps.released.apex < jumps.held.apex
    /\ jumps.held.w.G.floorOffset > jumps.released.w.G.floorOffset


\* C11: from GameOver the state always reaches Highscores: by itself in the
\* first iteration whose clock reading is GameOverMs after the time of the
\* game-over tick (xjump.c), at the 80th call of update_game after that tick
\* (main.c), and at once on a key press; the state after GameOver is never
\* another one than Highscores.
GameOverDeadline ==
    /\ [](prog = "xjump" /\ currState = "GAMEOVER" /\ pc \in {"draw", "top"}
            => currTime < deathTime + GameOverMs)
    /\ [](prog = "main" /\ currState = "GAMEOVER" => gameOverCount < 80)
    /\ [][/\ prog = "xjump" /\ currState # "GAMEOVER" /\ currState' = "GAMEOVER"
               => deathTime' = currTime
          /\ prog = "xjump" /\ currState = "GAMEOVER" /\ pc = "poll" /\ pc' = "draw"
               => (currState' = "HIGHSCORES" <=> currTime >= deathTime + GameOverMs)
          /\ prog = "main" /\ currState # "GAMEOVER" /\ currState' = "GAMEOVER"
               => gameOverCount' = 0
          /\ currState = "GAMEOVER" /\ gameOverCount' # gameOverCount
               => /\ gameOverCount' = gameOverCount + 1
                  /\ currState' = "HIGHSCORES" <=> gameOverCount' = 80
          /\ currState = "GAMEOVER" /\ pc = "poll" /\ (KeyDown \/ main_KeyDown)
               => currState' = "HIGHSCORES"
          /\ currState = "GAMEOVER" => currState' \in {"GAMEOVER", "HIGHSCORES"}]_vars

\* The scores are shown after 80 calls of update_game without a key press.
ScoresShownAfterDelay ==
    prog = "main" /\ currState = "HIGHSCORES" /\ gameOverCount = 80

\* The state that C12 names.
Fresh ==
    /\ G.score = 0 /\ G.x = 240 /\ G.y = 288 /\ G.vx = 0 /\ G.vy = 0
    /\ G.jump = 0 /\ G.isStanding /\ ~G.hasStarted
    /\ G.floorOffset = 20 /\ G.forcedScroll = 0 /\ G.scrollCount = 0
    /\ G.next_floor = -3 + Capacity(prog)
    /\ get_floor(G, 0, Capacity(prog)) = [left |-> 1, right |-> 30]
    /\ K.horizDirection = "NEUTRAL"
    /\ \A i \in {"JUMP", "LEFT", "RIGHT"} : ~K.isPressing[i]
    /\ currState = "RUNNING"

\* C12: a key press in Highscores starts a new game that depends neither on
\* the last game nor on the key: score 0, the hero at x = 240, y = 288 with
\* vx = vy = 0 and no jump budget, standing, hasStarted false, floorOffset 20,
\* forcedScroll 0, scrollCount 0, next_floor = -3 + capacity, row 0 the floor
\* (1,30), the direction Neutral and no input flagged as pressed, also when
\* the key is bound to Jump, Left or Right, and the state Running. The key
\* press is the step that leaves STATE_HIGHSCORES.
NewGameIsFresh ==
    [][currState = "HIGHSCORES" /\ (currState' # "HIGHSCORES" \/ games' # games)
          => Fresh' /\ games' = games + 1]_vars

\* The second game has just begun; the first one had scored.
SecondGameBegun ==
    games = 2 /\ Fresh /\ hsScore > 0

\* The greatest number of ticks in a row that can leave the hero off the
\* floors when no input is read: FIELD_H ticks to fall through the field at
\* 16 pixels a tick, after the ticks that gravity needs to turn the rise.
FallTicks == FIELD_H + 20

\* C20: when from some tick on no input is read and no floor supports the
\* hero, the state goes from Running to GameOver within a bounded number of
\* ticks, and the score at that transition is the score recorded at the last
\* tick in which the hero stood (0 if it never stood above the first floor).
FallEndsGame ==
    /\ [](airTicks <= FallTicks)
    /\ [](currState = "GAMEOVER" => hsScore = G.score)
    /\ [][airTicks' > airTicks => G'.score = G.score]_vars

\* A game ended by a fall, with the score of the last floor the hero stood on.
FellToGameOver ==
    currState = "GAMEOVER" /\ airTicks >= 4 /\ hsScore = G.score


\* The hero's x positions that the standing test accepts on floor fl.
Covers(fl, x) == fl.left * S - 24 <= x /\ x <= fl.right * S + 8

\* C24: every generated row n that is not a multiple of 250 is, when n is a
\* multiple of 5, a platform around fpos + 5 with fpos in 0..21 (also when
\* the step of fpos was negative), with 1 <= left <= right <= 30 and a width
\* of 5 to 9 tiles, and otherwise a gap with left > right that the standing
\* test accepts for no x; each row is written once, in increasing order.
PlatformsAndGaps ==
    [][LET n  == G.next_floor
           fl == get_floor(G', n, Capacity(prog))
       IN  /\ G'.next_floor = n + 1
           /\ \A m \in DOMAIN gen : m < n
           /\ DOMAIN gen' = DOMAIN gen \cup {n}
           /\ \A m \in DOMAIN gen : gen'[m] = gen[m]
           /\ gen'[n] = fl
           /\ mod(n, 250) # 0 /\ mod(n, 5) = 0
                => /\ G'.fpos \in 0 .. 21
                   /\ G'.fpos + 5 - fl.left \in 2 .. 4
                   /\ fl.right - (G'.fpos + 5) \in 2 .. 4
                   /\ 1 <= fl.left /\ fl.left <= fl.right /\ fl.right <= 30
                   /\ fl.right - fl.left + 1 \in 5 .. 9
           /\ mod(n, 5) # 0
                => /\ fl.left > fl.right
                   /\ \A x \in -R .. FIELD_W * S : ~Covers(fl, x)]_vars

\* The last row generated is a platform whose centre is more than 9 tiles to
\* the right of the platform before it: fpos took a negative step and
\* wrapped around.
FposWrapped ==
    LET n == G.next_floor - 1
    IN  /\ n - 5 \in DOMAIN gen /\ mod(n, 5) = 0 /\ mod(n, 250) # 0
        /\ mod(n - 5, 250) # 0
        /\ G.fpos + 5 - (gen[n - 5].right - 2) >= 10
        /\ gen[n - 1].left > gen[n - 1].right


\* The greatest number of ticks of an arc.
HopTicks == 24

\* C21 as stated: when Jump is held for exactly one tick from a standing
\* state with vx = 0 and no direction is held, x and vx do not change in the
\* arc, and the hero stands again after a bounded number of ticks.
HopLandsAgain ==
    play.script = "hop" /\ InArc
       => /\ G.x = play.arcX /\ G.vx = 0
          /\ play.arc <= HopTicks
          /\ currState # "GAMEOVER"

\* C21, amended: x and vx do not change in the arc, and after a bounded
\* number of ticks the hero stands again or the game is over.
HopEnds ==
    play.script = "hop" /\ InArc
       => G.x = play.arcX /\ G.vx = 0 /\ play.arc <= HopTicks

\* The hero took off, and the arc has ended below the field.
HopFellOut ==
    play.script = "hop" /\ InArc /\ currState = "GAMEOVER" /\ play.arc >= 12

\* The ticks in which Right was held without a break, the hero standing after
\* each of them, the first of them begun at rest.
RunFromRest == play.script = "run" /\ play.dir = "RIGHT" /\ play.rest

\* The distance covered in the 11 ticks that bring vx from 0 to 32.
RunUp == 80

\* C22 as stated: holding Right from rest while standing, vx is exactly 32
\* after 11 ticks and never more than 32 in a later tick.
RunReachesClamp ==
    RunFromRest => /\ play.run = 11 => G.vx = 32
                   /\ play.run >= 11 => G.vx <= 32

\* C22: holding Right from rest while standing, at a place from which the
\* hero does not reach the right wall in these ticks, vx is exactly 32 after
\* 11 ticks; and vx is never more than 32, wherever the hero started.
RunReachesClampOffWall ==
    /\ RunFromRest /\ play.run = 11 /\ play.runX + RunUp <= rightLimit => G.vx = 32
    /\ G.vx <= 32

\* A second run, begun at rest away from the start, has reached the clamp.
SecondRunAtClamp ==
    RunFromRest /\ play.run = 11 /\ play.runX # 240 /\ play.runX + RunUp <= rightLimit
                /\ G.vx = 32

\* The rows the ring holds: the last `capacity` rows generated.
InRing(g, n) == g.next_floor - Capacity(prog) <= n /\ n <= g.next_floor - 1

\* isStanding(hx, hy) gets as far as get_floor(G.floorOffset - y).
Looked(a) == a.g.vy >= 0 /\ RowOf(a) < FIELD_H

\* for (int y = -FIELD_EXTRA; y < FIELD_H; y++) get_floor(G.floorOffset - y):
\* the rows the next frame of xjump.c looks up.
DrawnRows ==
    IF /\ prog = "xjump" /\ pc = "draw" /\ currState # "HIGHSCORES"
       /\ (currState = "RUNNING" \/ currState # lastDrawn \/ wasResized)
    THEN {G.floorOffset - y : y \in -FIELD_EXTRA .. FIELD_H - 1}
    ELSE {}

ScrollAtRest(g) ==
    /\ g.floorOffset = 20 /\ g.scrollCount = 0 /\ g.forcedScroll = 0
    /\ g.next_floor = Capacity(prog) - 3

\* C25: hasStarted becomes true only in a tick in which the hero stands and
\* Jump is held, and stays true until the reset that starts the next game;
\* while it is false, floorOffset, scrollCount, forcedScroll and next_floor
\* keep their initial values.
ScrollStartsAtFirstJump ==
    /\ [][(~G.hasStarted /\ G'.hasStarted)
              => (K.isPressing["JUMP"] /\ G'.isStanding /\ G'.jump > 0
                    /\ games' = games)]_vars
    /\ [][(G.hasStarted /\ ~G'.hasStarted) => games' = games + 1]_vars
    /\ [](~G.hasStarted => ScrollAtRest(G))

\* The second game has been started by its first jump.
SecondGameStarted == games = 2 /\ G.hasStarted /\ G.floorOffset > 20

\* C26: after every tick 0 <= scrollCount <= SCROLL_THRESHOLD and
\* scrollSpeed <= MAX_SCROLL_SPEED; scrollSpeed never decreases and, once
\* started, grows by exactly 1 per tick up to the cap; the scroll counter
\* makes at most one scroll step per tick, and only when it is strictly
\* greater than the threshold.
ScrollCounterBounded ==
    /\ [](/\ 0 <= scr.scrollCount /\ scr.scrollCount <= SCROLL_THRESHOLD
          /\ scr.scrollSpeed <= MAX_SCROLL_SPEED
          /\ scr.steps = (IF scr.peak > SCROLL_THRESHOLD THEN 1 ELSE 0))
    /\ [][scr'.scrollSpeed >= scr.scrollSpeed]_vars
    /\ [][(scr.hasStarted /\ scr'.by = "tick")
            => scr'.scrollSpeed = min(scr.scrollSpeed + 1, MAX_SCROLL_SPEED)]_vars

\* At the greatest speed the counter went over the threshold and made a
\* scroll step.
ScrolledAtCap ==
    /\ scr.scrollSpeed = MAX_SCROLL_SPEED /\ scr.steps = 1
    /\ scr.peak - SCROLL_THRESHOLD = scr.scrollCount /\ scr.resets > 0

\* The worlds in which the loops of xjump.c call scroll(), from the world w
\* at the loop's test: while (G.scrollCount > SCROLL_THRESHOLD),
\* while (G.y < topLimit), while (G.forcedScroll >= S).
RECURSIVE ByCountCalls(_)
ByCountCalls(w) ==
    IF w.G.scrollCount > SCROLL_THRESHOLD
    THEN LET c == [w EXCEPT !.G.scrollCount = @ - SCROLL_THRESHOLD]
         IN  {c} \cup ByCountCalls(scroll(c))
    ELSE {}

RECURSIVE TopLimitCalls(_)
TopLimitCalls(w) ==
    IF w.G.y < topLimit THEN {w} \cup TopLimitCalls(scroll(w)) ELSE {}

RECURSIVE CatchUpCalls(_)
CatchUpCalls(w) ==
    IF w.G.forcedScroll >= S THEN {w} \cup CatchUpCalls(scroll(w)) ELSE {}

\* The scroll() calls of a tick of xjump.c.
TickScrollCalls(w, k, soft) ==
    LET a == [w EXCEPT !.G = AdvanceScroll(MoveHero(@, k, w.cap))]
        b == ScrollByCount(a)
    IN  ByCountCalls(a)
          \cup (IF ~soft /\ ~b.G.isStanding THEN TopLimitCalls(b) ELSE {})

\* The scroll() calls of a tick of main.c.
main_TickScrollCalls(w) ==
    LET a == IF w.G.hasStarted THEN [w EXCEPT !.G = main_SpeedUp(@)] ELSE w
        b == [main_AdvanceScroll(w) EXCEPT !.G = Integrate(@)]
    IN  (IF w.G.hasStarted /\ a.G.scrollCount > 20000
         THEN {[a EXCEPT !.G.scrollCount = @ - 20000]} ELSE {})
          \cup (IF ~main_IsGameOver(b.G) /\ b.G.y < 5 * S
                THEN {[b EXCEPT !.G.scrollCount = 0]} ELSE {})

\* The scroll() calls that the next step of the program makes, each with the
\* world it finds.
ScrollCalls ==
    CASE prog = "xjump" /\ pc = "ticks" /\ frameTime + GAME_SPEED <= currTime ->
           TickScrollCalls(W, K, isSoftScroll)
      [] prog = "xjump" /\ pc = "draw" /\ isSoftScroll /\ currState # "HIGHSCORES"
           /\ (currState = "RUNNING" \/ currState # lastDrawn \/ wasResized) ->
           CatchUpCalls([W EXCEPT !.G = ForcedScrollOnDraw(
                            @, Interpolate(@, Capacity(prog), currTime - frameTime))])
      [] prog = "main" /\ pc = "poll" /\ currState = "RUNNING" ->
           main_TickScrollCalls(W)
      [] OTHER -> {}

\* scroll() of the revision that runs.
ScrollStep(w) == IF prog = "xjump" THEN scroll(w) ELSE main_scroll(w)

\* The logical row of the floor at the hero's feet: floorOffset - (y+R)/S.
HeroRow(g) == g.floorOffset - CDiv(g.y + R, S)

\* What a scroll step does to the game apart from the row of the hero: one
\* new row, floorOffset + 1, y + S, and x, vx, vy, jump, score as they were.
ScrollsOneRow(g, g2) ==
    /\ g2.next_floor = g.next_floor + 1
    /\ g2.floorOffset = g.floorOffset + 1
    /\ g2.y = g.y + S
    /\ <<g2.x, g2.vx, g2.vy, g2.jump, g2.score>> = <<g.x, g.vx, g.vy, g.jump, g.score>>

\* C27 as stated: a scroll step generates one new row, adds 1 to floorOffset
\* and S to y, leaves x, vx, vy, the jump budget and the score unchanged, and
\* leaves floorOffset - (y+R)/S unchanged, for every y at which the program
\* scrolls.
ScrollKeepsRow ==
    \A w \in ScrollCalls :
        /\ ScrollsOneRow(w.G, ScrollStep(w).G)
        /\ HeroRow(ScrollStep(w).G) = HeroRow(w.G)

\* C29 as stated: after every tick the hero is inside the side walls,
\* leftLimit <= x <= rightLimit.
InsideWalls == leftLimit <= G.x /\ G.x <= rightLimit

\* The ticks after which a hero that runs into a wall stays on it.
WallTicks == 60

\* C30: when Left (Right) is held without a break while the hero stands,
\* from some tick on x is leftLimit (rightLimit) after every tick.
NoWallFlicker ==
    play.script = "run" /\ play.run >= WallTicks
       => /\ play.dir = "LEFT" => G.x = leftLimit
          /\ play.dir = "RIGHT" => G.x = rightLimit

\* The hero has run into the left wall from a rest away from the start and
\* moves against it: it has just bounced off it, back to leftLimit.
HeldOnLeftWall ==
    /\ play.script = "run" /\ play.dir = "LEFT" /\ play.run > WallTicks + 20
    /\ play.runX # 240 /\ G.x = leftLimit /\ G.vx < 0

\* C28: no jump in the air. In a tick the jump budget goes from 0 to a
\* positive value only if the hero stands on a floor in it and Jump is held,
\* and it is in [7,15] then; in a tick that leaves the hero in the air the
\* budget does not increase, is 0 if Jump is not held, and stays 0 if Jump is
\* pressed again.
NoMidAirJump ==
    [][play'.since = play.since + 1
         => /\ (G.jump = 0 /\ G'.jump > 0)
                 => (K.isPressing["JUMP"] /\ G'.isStanding /\ G'.jump \in 7 .. 15)
            /\ ~G'.isStanding
                 => (G'.jump <= G.jump /\ (~K.isPressing["JUMP"] => G'.jump = 0))]_vars

\* Jump was released in the air and is held again: the hero falls.
JumpHeldAgainInAir ==
    /\ play.script = "tap" /\ play.ev = 3 /\ play.since >= 2
    /\ K.isPressing["JUMP"] /\ ~G.isStanding /\ G.jump = 0 /\ G.vy > 0
\* The step is a tick of the simulation in STATE_RUNNING.
TickStep ==
    IF play # <<>> THEN play'.since = play.since + 1
    ELSE /\ currState = "RUNNING"
         /\ IF prog = "xjump" THEN pc = "ticks" /\ lag' = lag - GAME_SPEED
            ELSE pc = "poll" /\ pc' = "draw"

\* C31: velocity bounds. In every reachable state -32 <= vx <= 32 and
\* -19 <= vy <= 16.
VelocityBounds == G.vx \in -32 .. 32 /\ G.vy \in -19 .. 16

\* The pixels by which a tick from g to g2 moved the hero's feet down in the
\* field: the change of y less the S pixels of every scroll step in it.
FeetDown(g, g2) == g2.y - S * (g2.floorOffset - g.floorOffset) - g.y

\* C31: the velocities stay within their bounds, so the avatar's feet move
\* down by at most one tile (S pixels) per tick.
FeetDownOneTile ==
    /\ []VelocityBounds
    /\ [][TickStep => FeetDown(G, G') <= S]_vars

\* A tick that read no direction and in which the hero met no wall: it
\* stays within the walls after G.x += G.vx / 2.
FreeTick ==
    /\ play'.since = play.since + 1
    /\ K.horizDirection = "NEUTRAL"
    /\ G.x + CDiv(G.vx, 2) \in leftLimit .. rightLimit

StandsOnGrid ==
    /\ [](G.isStanding =>
            /\ G.y % S = 0
            /\ \/ G.vy = 0
               \/ G.jump \in 7 .. 15 /\ G.vy = CDiv(-G.jump, 2) - 12)
    /\ [][play'.since = play.since + 1 /\ G'.isStanding /\ ~K.isPressing["JUMP"]
            => G'.vy = 0]_vars

\* The hero has landed above its first floor in soft-scroll mode, after
\* scroll steps, and a frame was drawn LateDt ms after the tick.
LandedAndDrawn ==
    /\ isSoftScroll /\ G.isStanding /\ G.vy = 0
    /\ G.floorOffset > 20 /\ G.score > 0 /\ play.dt = LateDt

\* The hero as the tick that starts now hands it to isStanding: after the
\* movement and the walls in xjump.c, and after the scroll counter, the
\* movement, the forced scroll and the walls in main.c.
TestedHero ==
    IF prog = "xjump" THEN CollideWalls(Integrate(G))
    ELSE CollideWalls(main_ForceScroll(
             [main_AdvanceScroll(W) EXCEPT !.G = Integrate(@)]).G)

\* The logical row floorOffset - (y+R)/S on which that call looks for a floor.
TestedRow == TestedHero.floorOffset - CDiv(TestedHero.y + R, S)

\* The tick that starts now finds the hero standing.
LandingTick ==
    /\ TickStep
    /\ isStanding(TestedHero, Capacity(prog), TestedHero.x, TestedHero.y)
    /\ prog = "main" => ~main_IsGameOver(Integrate(main_AdvanceScroll(W).G))

\* C34: whenever a tick finds the avatar standing, the logical row
\* floorOffset - (y+R)/S it stands on is a non-negative multiple of 5, and after
\* that tick score >= row/5; score equals the largest row/5 over the rows
\* the avatar has stood on in the game (it is max(score, row/5) after such
\* a tick and unchanged by any other step of the game), and score >= 0.
ScoreIsBestRow ==
    /\ [][LandingTick => TestedRow >= 0 /\ TestedRow % 5 = 0]_vars
    /\ [][LandingTick => G'.score = max(G.score, TestedRow \div 5)]_vars
    /\ [][~LandingTick /\ games' = games => G'.score = G.score]_vars
    /\ [](G.score >= 0)

\* The step draws a frame of the playfield.
DrawStep == play'.since = play.since /\ held' = held

\* G.forcedScroll after the interpolation of the frame drawn by the step,
\* before the catch-up loop.
ForcedAtDraw ==
    ForcedScrollOnDraw(G, Interpolate(G, Capacity(prog), play'.dt)).forcedScroll

\* C35: forcedScroll is never negative; in hard-scroll mode (and in main.c,
\* which has no such field) it is 0 in every reachable state; in soft-scroll
\* mode it is < S at the end of every frame of the playfield, and the
\* catch-up scroll steps, each of which reduces it by S, leave
\* y + forcedScroll unchanged: a frame that found forcedScroll = f before
\* its loop has made f / S steps, each adding S to y.
ForcedScrollCaughtUp ==
    /\ [](G.forcedScroll >= 0)
    /\ [](~isSoftScroll => G.forcedScroll = 0)
    /\ [][DrawStep => G'.forcedScroll < S]_vars
    /\ [][DrawStep =>
            /\ G'.floorOffset = G.floorOffset + ForcedAtDraw \div S
            /\ G'.forcedScroll = ForcedAtDraw - S * (ForcedAtDraw \div S)
            /\ G'.y + G'.forcedScroll = G.y + ForcedAtDraw]_vars

\* A soft-scroll game has scrolled before its scroll counter could pass
\* SCROLL_THRESHOLD (fewer than 60 ticks since the first jump), hence in the
\* catch-up loop of a frame, and a part of the forced scroll is left.
CaughtUp ==
    /\ isSoftScroll /\ G.floorOffset > 20 /\ G.scrollSpeed < 260
    /\ G.forcedScroll > 0

\* The hero stands within the walls on row 0, the floor from wall to wall.
OnRowZero ==
    /\ G.isStanding /\ G.vy = 0
    /\ G.floorOffset - CDiv(G.y + R, S) = 0
    /\ get_floor(G, 0, Capacity(prog)) = [left |-> 1, right |-> 30]
    /\ G.x \in leftLimit .. rightLimit

\* C36: before the first jump of a game the game cannot end. hasStarted is
\* false from init_game until a tick reads Jump held, and as long as it is
\* the avatar stands on the full-width row 0 and the state is not GameOver,
\* whatever the Left/Right input, the pauses and the frames.
NoEndBeforeFirstJump ==
    /\ [](~G.hasStarted => OnRowZero /\ currState \in {"RUNNING", "PAUSED"})
    /\ [][~G.hasStarted /\ G'.hasStarted => TickStep /\ K.isPressing["JUMP"]]_vars

\* A game is paused before its first jump, after the hero has walked to a
\* wall.
PausedAtWallBeforeJump ==
    /\ ~G.hasStarted /\ currState = "PAUSED"
    /\ G.x \in {leftLimit, rightLimit}

\* C37: once scrolling has started, a game in which Jump is never held
\* again ends: the state is GameOver at the latest EndTicks ticks after
\* Jump was released, in both scroll modes and in main.c, with no direction,
\* Left or Right held.
EndsWithoutJump ==
    play.ev >= 2 /\ currState = "RUNNING" => G.hasStarted /\ play.since < EndTicks

\* A soft-scroll game has ended with a direction key held.
QuitEnded ==
    isSoftScroll /\ currState = "GAMEOVER" /\ play.ev = 3 /\ G.floorOffset >= 24

\* The interpolation of a soft-scroll frame drawn at dt = 0.
AtZero == Interpolate(G, Capacity(prog), 0)

\* C38 as stated: in soft-scroll mode, for a frame with dt = 0 right after
\* a tick, the predicted position (hx, hy) equals (x, y) and the predicted
\* standing flag equals the isStanding flag computed by that tick.
InterpolationAgreesAtZero ==
    isSoftScroll =>
        AtZero.hx = G.x /\ AtZero.hy = G.y /\ AtZero.stand = G.isStanding

\* C38, amended: for such a frame hx = x, and hy = y whenever the tick left
\* the isStanding flag true or the prediction finds the hero not standing.
\* The predicted flag is isStanding evaluated again with the vy the tick
\* left: it is false after the tick of a take-off (flag true, vy < 0), and
\* where it is true after a tick that left the flag false (the tick tested
\* with vy < 0 and gravity then raised vy to 0 or more), hy is y snapped to
\* the tile grid.
InterpolationAtZero ==
    isSoftScroll =>
        /\ AtZero.hx = G.x
        /\ G.isStanding \/ ~AtZero.stand => AtZero.hy = G.y
        /\ G.isStanding /\ G.vy < 0 => ~AtZero.stand
        /\ AtZero.stand /\ ~G.isStanding => AtZero.hy = collideWithFloor(G.y)

\* The hero has landed on a floor above the first, and the frame at dt = 0
\* finds it standing there.
PredictedStanding ==
    /\ isSoftScroll /\ G.isStanding /\ G.vy = 0 /\ G.score > 0
    /\ AtZero.stand /\ AtZero.hy = G.y

\* What an iteration of a scrolling loop must decrease: the counter, the
\* distance of the hero below topLimit, the scroll that is owed.
LoopVariant(kind, g) ==
    CASE kind = "count" -> g.scrollCount - SCROLL_THRESHOLD
      [] kind = "top" -> topLimit - g.y
      [] kind = "catchup" -> g.forcedScroll - S + 1

InLoop == scr.at = "loop"

\* C39: every loop of a tick and of a frame terminates. An iteration of the
\* accumulator loop, of the hard-scroll loop and of the soft-scroll catch-up
\* loop finds its variant positive and leaves it smaller, so each of them
\* makes finitely many scroll steps from every entry state, and every loop,
\* the do-while of pcg32_bounded under a fair stream of draws included, is
\* left in the end.
LoopsTerminate ==
    /\ [][InScrollLoop /\ scr'.steps # scr.steps
           => /\ LoopVariant(scr.kind, G) > 0
              /\ LoopVariant(scr.kind, G') < LoopVariant(scr.kind, G)]_vars
    /\ [][InLoop /\ scr.kind = "pcg" /\ scr'.at = "done" => scr'.r \in 0 .. scr.n - 1]_vars
    /\ InLoop ~> (scr.at = "done")

\* A loop was left after two iterations or more.
LoopLeftAfterSteps == scr.at = "done" /\ scr.steps >= 2

====
